---- MODULE Spec2Model ----
(***************************************************************************)
(* Model of the SP3 parser of sp3/parse.py (Product.from_bytes) together   *)
(* with the epoch conversion of sp3/timesystem.py it calls.                *)
(*                                                                         *)
(* A line of the input is a record: its kind (the fixed-column shape of    *)
(* the line), the fields the patterns of id_to_patterns capture, and what  *)
(* follows the last column: "" for nothing, "\r" for the CR of a CRLF      *)
(* terminator (trailing blanks meet the same \s of the patterns).  Text(l) *)
(* is the leading bytes of the line, on which the parser's startswith      *)
(* tests are evaluated.  A "/*" line of text "" is "/* " and blanks.       *)
(* Instants are whole seconds counted from 1980-01-06T00:00:00.            *)
(*                                                                         *)
(* The module also models the calls of the library that work on the parsed *)
(* records: the three conversions of TimeSystem (sp3/timesystem.py), the   *)
(* builder narrowed_records_to_piecewise_polynomial and the evaluator      *)
(* PiecewisePolynomial.__call__ (sp3/__init__.py).  A call is recorded in  *)
(* `call`, what it returned or that it raised in `outcome`.  The numbers   *)
(* numpy computes (polyfit, polyval, mean, std) are kept as terms: records *)
(* that name the operation and its arguments.                              *)
(***************************************************************************)
EXTENDS Integers, Sequences, FiniteSets, TLC

VARIABLES
    pc,                   \* "loop": reading lines, "returned", "raised"
    index,                \* enumerate index of the next line, saturated at 3
    line,                 \* the line read last, right-stripped once accepted
    state,
    product,
    start,
    satellites_count,
    satellite_index,
    header_complete,
    includes_velocities,
    epochs,
    epoch_interval,
    epoch_index,
    epoch,
    call,                 \* the library call made last, with its arguments
    outcome,              \* what that call returned, or that it raised
    polynomial,           \* the PiecewisePolynomial built, None before
    built,                \* the arguments it was built from, None before
    files,                \* download_directory: the content of each name
    requests,             \* the HTTP requests issued, in order
    loading,              \* the local variables of load, None outside it
    concurrent            \* a directory shared by callers of download

vars == <<pc, index, line, state, product, start, satellites_count,
          satellite_index, header_complete, includes_velocities, epochs,
          epoch_interval, epoch_index, epoch, call, outcome, polynomial,
          built, files, requests, loading, concurrent>>

parser == <<pc, index, line, state, product, start, satellites_count,
            satellite_index, header_complete, includes_velocities, epochs,
            epoch_interval, epoch_index, epoch>>

network == <<files, requests, loading, concurrent>>
library == <<call, outcome, polynomial, built, network>>

locals == <<product, start, satellites_count, satellite_index,
            header_complete, includes_velocities, epochs, epoch_interval,
            epoch_index, epoch>>

----------------------------------------------------------------------------
(* Bounds of the explored inputs *)

MaxEpochs == 2        \* epoch count declared, and '* ' headers read
MaxSatellites == 2    \* satellites declared and collected
MaxInterval == 2      \* largest epoch interval of header line 2
MaxComments == 0      \* stored comment lines
MaxLead == 2          \* seconds explored before 0 and after the leap second
MaxOffset == 1        \* largest offset given to offset_seconds, either sign
MaxRecords == 4       \* records given to the builder
MaxWindow == 1        \* largest window given to the builder
MaxDegree == 3        \* largest degree given to the builder
MaxProviders == 2     \* providers that match the id given to load
MaxDay == 1           \* days before and after day 0 that a provider serves
MaxDelta == 2         \* largest begin_end_delta of a CddisSearchProvider
MaxCallers == 2        \* concurrent callers of download for one name
MaxChunks == 2        \* chunks of a response body
MaxBody == 11         \* bytes of a compressed stream after its header
MaxReads == 2         \* reads that return bytes of a compressed stream

----------------------------------------------------------------------------
(* Optional values: None is the empty tuple, a value x is <<x>> *)

None == <<>>
Some(x) == <<x>>

Min(a, b) == IF a < b THEN a ELSE b

RECURSIVE Pow(_, _)
Pow(b, e) == IF e = 0 THEN 1 ELSE b * Pow(b, e - 1)

----------------------------------------------------------------------------
(* The input: lines of an SP3 file *)

Trails == {"", "\r"}
TrailText(t) == IF t = "" THEN <<>> ELSE <<t>>

(* the three-byte fields that \w\d{2} matches, among those tried *)
WordIds == {"G01", "G02", "g01"}
(* the three-byte fields tried as ids: "?01" is no word character and    *)
(* two digits                                                             *)
Ids == WordIds \cup {"?01"}
PackedIds == {<<"G01">>, <<"G01", "G02">>, <<"g01">>, <<"G01", "?01">>}
MorePackedIds == {<<>>, <<"G02">>}
TimeSystems == {"GPS", "GLO", "GAL", "BDT", "TAI", "UTC", "IRN", "QZS"}
(* three-column exponent fields: None is a field of spaces *)
ExponentLists == {<<>>, <<Some(0)>>, <<None, Some(0)>>,
                  <<Some(0), Some(0)>>, <<Some(0), Some(5)>>}
Positions == {7}
Velocities == {3}
(* instants, in seconds since 1980-01-06 00:00:00 *)
StartDates == {0}
EpochDates == 0 .. ((MaxEpochs - 1) * MaxInterval)

Lines0 == [kind : {"#"}, velocity_flag : {"P", "V"}, date : StartDates,
           epochs : 1 .. MaxEpochs, trail : Trails]
Lines1 == [kind : {"##"}, week : {0, 1}, sow : StartDates,
           interval : 0 .. MaxInterval, mjd : {44244, 44245},
           fod : StartDates, trail : Trails]
LinesPlus0 == [kind : {"+0"}, count : 0 .. MaxSatellites, ids : PackedIds,
               trail : Trails]
LinesPlus == [kind : {"+"}, ids : MorePackedIds, trail : Trails]
LinesAccuracy == [kind : {"++"}, exponents : ExponentLists, trail : Trails]
                 \cup [kind : {"++bare"}, trail : Trails]
LinesC == [kind : {"%c0"}, time_system : TimeSystems \cup {"ccc"},
           trail : Trails]
          \cup [kind : {"%c1"}, trail : Trails]
LinesF == [kind : {"%f"}, zero : BOOLEAN, trail : Trails]
LinesI == [kind : {"%i"}, trail : Trails]
LinesComment == [kind : {"/*"}, text : {"", "c"}, trail : Trails]
                \cup [kind : {"/*bare"}, trail : Trails]
LinesEpoch == [kind : {"*"}, date : EpochDates, trail : Trails]
LinesP == [kind : {"P"}, id : Ids, position : Positions, trail : Trails]
(* what follows the three velocity columns of a V line: nothing, the    *)
(* clock rate, the exponents of the standard deviations after a blank     *)
(* clock rate, or both                                                     *)
VColumns == {"", "clock", "std", "clock std"}
LinesV == [kind : {"V"}, id : Ids, velocity : Velocities,
           columns : VColumns, trail : Trails]
LinesE == [kind : {"EP", "EV"}, trail : Trails]
LinesEOF == [kind : {"EOF"}, trail : Trails]
LinesOther == [kind : {""}, trail : Trails] \cup [kind : {"x"}, trail : {""}]

(* The lines tried at each place of the file: those of the shapes the    *)
(* format puts there, and a blank and a foreign line; a line of any other *)
(* shape is treated there as the foreign line "x" is.                     *)
HeaderLines == LinesPlus \cup LinesAccuracy \cup LinesC \cup LinesF
               \cup LinesI \cup LinesOther
RecordLines == LinesComment \cup LinesEpoch \cup LinesP \cup LinesV
               \cup LinesE \cup LinesEOF \cup LinesOther
Lines == Lines0 \cup Lines1 \cup LinesPlus0 \cup HeaderLines
         \cup RecordLines

NoLine == [kind |-> "none", trail |-> ""]

(* The leading bytes of a line.  "++bare", "/*bare", "EOF" and "" are the *)
(* whole line, so what trails them follows at once.                       *)
LeadingBytes(kind) ==
    CASE kind = "#" -> <<"#", "c">>
      [] kind = "##" -> <<"#", "#", " ">>
      [] kind \in {"+0", "+"} -> <<"+", " ", " ">>
      [] kind = "++" -> <<"+", "+", " ">>
      [] kind = "++bare" -> <<"+", "+">>
      [] kind \in {"%c0", "%c1"} -> <<"%", "c", " ">>
      [] kind = "%f" -> <<"%", "f", " ">>
      [] kind = "%i" -> <<"%", "i", " ">>
      [] kind = "/*" -> <<"/", "*", " ">>
      [] kind = "/*bare" -> <<"/", "*">>
      [] kind = "*" -> <<"*", " ", " ">>
      [] kind = "P" -> <<"P", "G", "0">>
      [] kind = "V" -> <<"V", "G", "0">>
      [] kind = "EP" -> <<"E", "P", " ">>
      [] kind = "EV" -> <<"E", "V", " ">>
      [] kind = "EOF" -> <<"E", "O", "F">>
      [] kind = "x" -> <<"x">>
      [] OTHER -> <<>>

Text(l) ==
    IF l.kind \in {"++bare", "/*bare", "EOF", ""}
    THEN LeadingBytes(l.kind) \o TrailText(l.trail)
    ELSE LeadingBytes(l.kind)

StartsWith(l, prefix) ==
    /\ Len(prefix) <= Len(Text(l))
    /\ SubSeq(Text(l), 1, Len(prefix)) = prefix

(* len(line) = 0, the test without the strip *)
IsEmpty(l) == l.kind = "" /\ l.trail = ""

(* len(line.strip()) = 0 *)
IsBlank(l) == l.kind = ""

(* Whether one of the patterns id_to_patterns[id] matches the line. *)
Matches(id, l) ==
    CASE id = "0" -> l.kind = "#"
      [] id = "1" -> l.kind = "##"
      [] id = "+0" -> l.kind \in {"+0", "+"}
      [] id = "+" -> l.kind = "+"
      [] id = "++" -> l.kind = "++" \/ (l.kind = "++bare" /\ l.trail = "")
      [] id = "c0" -> l.kind \in {"%c0", "%c1"}
      [] id = "c1" -> l.kind = "%c1"
      [] id = "f0" -> l.kind = "%f"
      [] id = "f1" -> l.kind = "%f" /\ l.zero
      [] id = "i" -> l.kind = "%i"
      [] id = "/" -> l.kind = "/*" \/ (l.kind = "/*bare" /\ l.trail # "\r")
      [] id = "*" -> l.kind = "*"
      [] id = "p" -> l.kind = "P" /\ l.id \in WordIds
      [] id = "ep" -> l.kind = "EP"
      [] id = "v" -> l.kind = "V" /\ l.id \in WordIds
      [] id = "ev" -> l.kind = "EV"
      [] id = "eof" -> l.kind = "EOF"
      [] OTHER -> FALSE

----------------------------------------------------------------------------
(* sp3/timesystem.py: TimeSystem.time_to_utc                               *)

GpsTaiOffset == 19
(* UTC was GPS time at the GPS epoch, so TAI - UTC starts at the same 19 s *)
TaiUtcOffset == GpsTaiOffset
GlonassOffset == 3 * 60 * 60

(* astropy.time.Time(t, scale="tai").utc.to_datetime(): the UTC label of   *)
(* a TAI second; to_datetime raises ValueError inside a leap second.       *)
LeapSecondTai == GpsTaiOffset + 1
TaiToUtcRaises(t) == t = LeapSecondTai
TaiToUtc(t) ==
    IF t < LeapSecondTai THEN t - TaiUtcOffset ELSE t - TaiUtcOffset - 1

time_to_utc_raises(time_system, time) ==
    CASE time_system \in {"GPS", "IRN", "QZS"} ->
             TaiToUtcRaises(time + GpsTaiOffset)
      [] time_system \in {"GAL", "TAI"} -> TaiToUtcRaises(time)
      [] OTHER -> FALSE

(* time_to_utc without the 19 s between GPS time and TAI *)
time_to_utc_as_tai(time_system, time) ==
    CASE time_system \in {"GPS", "IRN", "QZS", "GAL", "TAI"} -> TaiToUtc(time)
      [] time_system = "GLO" -> time - GlonassOffset
      [] OTHER -> time

time_to_utc(time_system, time) ==
    CASE time_system \in {"GPS", "IRN", "QZS"} ->
             TaiToUtc(time + GpsTaiOffset)
      [] time_system = "GLO" -> time - GlonassOffset
      [] time_system \in {"GAL", "TAI"} -> TaiToUtc(time)
      [] OTHER -> time

(* astropy.time.Time(u, scale="utc").tai.datetime: the TAI second of a UTC *)
(* label.  A datetime has no label for the leap second itself, so no UTC   *)
(* argument lies in it, and the TAI result is always a datetime.           *)
LeapSecondUtc == LeapSecondTai - TaiUtcOffset
UtcToTai(u) ==
    IF u < LeapSecondUtc THEN u + TaiUtcOffset ELSE u + TaiUtcOffset + 1

time_from_utc(time_system, time) ==
    CASE time_system \in {"GPS", "IRN", "QZS"} ->
             UtcToTai(time) - GpsTaiOffset
      [] time_system = "GLO" -> time + GlonassOffset
      [] time_system \in {"GAL", "TAI"} -> UtcToTai(time)
      [] OTHER -> time

offset_seconds(time_system, time, offset) ==
    CASE time_system \in {"GPS", "IRN", "QZS", "GAL", "TAI"} ->
             UtcToTai(time) + offset
      [] OTHER -> time + offset

----------------------------------------------------------------------------
(* sp3/parse.py: Product.from_bytes                                        *)

NoProduct == [version |-> "None", time_system |-> "None", comments |-> <<>>,
              satellites |-> <<>>]

Satellite(id) == [id |-> id, accuracy |-> None, records |-> <<>>]

Record(time, position) ==
    [time |-> time, position |-> position, velocity |-> None,
     clock_rate |-> None, velocity_std |-> None, clock_rate_std |-> None]

(* The names of download_directory: one per provider and day, each with  *)
(* its in-progress twin '<name>.download'.                                *)
Days == (0 - MaxDay - MaxDelta) .. (MaxDay + 1)
FileNames == [provider : 1 .. MaxProviders, day : Days,
              suffix : {"", ".download"}]

(* The callers that share a directory, and what the directory is before  *)
(* any of them has run: the name and its in-progress twin are absent (an  *)
(* inode number of 0), no inode exists, no caller has started.            *)
Callers == 1 .. MaxCallers
Idle == [pc |-> "idle", force |-> FALSE, output |-> 0, position |-> 0]
Unshared == [directory |-> [final |-> 0, download |-> 0],
             inodes |-> <<>>,
             callers |-> [p \in Callers |-> Idle]]

NoCall == [fn |-> "none"]
NoOutcome == [raised |-> FALSE, value |-> None]

Init ==
    /\ call = NoCall
    /\ outcome = NoOutcome
    /\ polynomial = None
    /\ built = None
    /\ files = [name \in FileNames |-> None]
    /\ requests = <<>>
    /\ loading = None
    /\ concurrent = Unshared
    /\ pc = "loop"
    /\ index = 0
    /\ line = NoLine
    /\ state = 0
    /\ product = NoProduct
    /\ start = 0
    /\ satellites_count = 0
    /\ satellite_index = 0
    /\ header_complete = FALSE
    /\ includes_velocities = FALSE
    /\ epochs = 0
    /\ epoch_interval = 0
    /\ epoch_index = 0
    /\ epoch = None

(* The pattern id and the next state the loop chooses for a line; the ids *)
(* "continue" and "garbage" stand for the two outcomes of state 14.       *)
Dispatch(l) ==
    IF index = 0 THEN [id |-> "0", state |-> state]
    ELSE IF index = 1 THEN [id |-> "1", state |-> state]
    ELSE IF index = 2 THEN [id |-> "+0", state |-> 1]
    ELSE CASE state = 1 ->
                  IF StartsWith(l, <<"+", " ">>)
                  THEN [id |-> "+", state |-> 1]
                  ELSE [id |-> "++", state |-> 2]
           [] state = 2 ->
                  IF StartsWith(l, <<"+", "+">>)
                  THEN [id |-> "++", state |-> 2]
                  ELSE [id |-> "c0", state |-> 3]
           [] state = 3 -> [id |-> "c1", state |-> 4]
           [] state = 4 -> [id |-> "f0", state |-> 5]
           [] state = 5 -> [id |-> "f1", state |-> 6]
           [] state \in {6, 7} -> [id |-> "i", state |-> state + 1]
           [] state = 8 ->
                  IF StartsWith(l, <<"/", "*", " ">>)
                  THEN [id |-> "/", state |-> 8]
                  ELSE [id |-> "*", state |-> 9]
           [] state = 9 -> [id |-> "p", state |-> 10]
           [] state = 10 ->
                  IF StartsWith(l, <<"P">>) THEN [id |-> "p", state |-> 10]
                  ELSE IF StartsWith(l, <<"E", "P">>)
                       THEN [id |-> "ep", state |-> 11]
                  ELSE IF StartsWith(l, <<"V">>)
                       THEN [id |-> "v", state |-> 12]
                  ELSE IF StartsWith(l, <<"*", " ">>)
                       THEN [id |-> "*", state |-> 9]
                  ELSE [id |-> "eof", state |-> 14]
           [] state = 11 ->
                  IF StartsWith(l, <<"P">>) THEN [id |-> "p", state |-> 11]
                  ELSE IF StartsWith(l, <<"V">>)
                       THEN [id |-> "v", state |-> 12]
                  ELSE IF StartsWith(l, <<"*", " ">>)
                       THEN [id |-> "*", state |-> 9]
                  ELSE [id |-> "eof", state |-> 14]
           [] state = 12 ->
                  IF StartsWith(l, <<"P">>) THEN [id |-> "p", state |-> 12]
                  ELSE IF StartsWith(l, <<"E", "V">>)
                       THEN [id |-> "ev", state |-> 13]
                  ELSE IF StartsWith(l, <<"*", " ">>)
                       THEN [id |-> "*", state |-> 9]
                  ELSE [id |-> "eof", state |-> 14]
           [] state = 13 ->
                  IF StartsWith(l, <<"P">>) THEN [id |-> "p", state |-> 13]
                  ELSE IF StartsWith(l, <<"*", " ">>)
                       THEN [id |-> "*", state |-> 9]
                  ELSE [id |-> "eof", state |-> 14]
           [] state = 14 ->
                  IF ~IsBlank(l) THEN [id |-> "garbage", state |-> 14]
                  ELSE [id |-> "continue", state |-> 14]
           [] OTHER -> [id |-> "unknown", state |-> state]

(* The lines the next iteration of the loop is tried on. *)
Input ==
    IF index = 0 THEN Lines0 \cup LinesOther
    ELSE IF index = 1 THEN Lines1 \cup LinesOther
    ELSE IF index = 2 THEN LinesPlus0 \cup LinesPlus \cup LinesOther
    ELSE IF state < 8 THEN HeaderLines
    ELSE RecordLines

(* An exception leaves from_bytes: the locals are dropped, the line and   *)
(* the state it was raised in are kept for the report.                    *)
Raise(l, s) ==
    /\ pc' = "raised"
    /\ line' = l
    /\ state' = s
    /\ index' = index
    /\ product' = NoProduct
    /\ start' = 0
    /\ satellites_count' = 0
    /\ satellite_index' = 0
    /\ header_complete' = FALSE
    /\ includes_velocities' = FALSE
    /\ epochs' = 0
    /\ epoch_interval' = 0
    /\ epoch_index' = 0
    /\ epoch' = None
    /\ UNCHANGED library

(* The loop goes on to the next line; what trailed the line that was     *)
(* accepted is never read again.                                          *)
Proceed(l, s) ==
    /\ pc' = "loop"
    /\ line' = [l EXCEPT !.trail = ""]
    /\ state' = s
    /\ index' = Min(index + 1, 3)
    /\ UNCHANGED library

----------------------------------------------------------------------------
(* The checks of the parser *)

SecondsPerWeek == 7 * 24 * 60 * 60
SecondsPerDay == 24 * 60 * 60
GpsEpochMjd == 44244

(* The start of header line 2, from the GPS week and seconds of week, and *)
(* from the modified Julian day and fraction of day.                      *)
StartOfWeek(l) == l.week * SecondsPerWeek + l.sow
StartOfMjd(l) == (l.mjd - GpsEpochMjd) * SecondsPerDay + l.fod

(* HeaderAsserts without the count of the accuracy exponents *)
HeaderAssertsOfIds ==
    /\ product.version # "None"
    /\ Len(product.satellites) = satellites_count

(* The asserts made when the first line that is no comment is met. *)
HeaderAsserts ==
    /\ product.version # "None"
    /\ Len(product.satellites) = satellites_count
    /\ satellite_index = satellites_count

(* EpochComplete with the comparison slackened *)
EpochCompleteAtMost == satellite_index + 1 <= Len(product.satellites)

(* Every satellite of the current epoch has had its P line. *)
EpochComplete == satellite_index + 1 = Len(product.satellites)

(* EpochOnGrid checking the first epoch header only *)
EpochOnGridAtStart(date) == epoch_index > 0 \/ date = start

EpochOnGrid(date) == date = start + epoch_index * epoch_interval

(* VelocitiesConsistent without the else branch *)
VelocitiesWhenFlagged ==
    includes_velocities =>
        \A i \in 1 .. Len(product.satellites) :
            \A k \in 1 .. Len(product.satellites[i].records) :
                product.satellites[i].records[k].velocity # None

VelocitiesConsistent ==
    \A i \in 1 .. Len(product.satellites) :
        \A k \in 1 .. Len(product.satellites[i].records) :
            IF includes_velocities
            THEN product.satellites[i].records[k].velocity # None
            ELSE product.satellites[i].records[k].velocity = None

FinalAsserts ==
    /\ product.version # "None"
    /\ header_complete
    /\ epoch_index = epochs
    /\ (epoch_index > 0 => EpochComplete)
    /\ VelocitiesConsistent

(* The accuracy exponents of one '++' line, assigned to the satellites in *)
(* order from satellite_index on.                                          *)
RECURSIVE Accuracies(_, _, _)
Accuracies(satellites, si, exponents) ==
    IF exponents = <<>>
    THEN [satellites |-> satellites, satellite_index |-> si,
          raised |-> FALSE]
    ELSE LET stripped_slice == Head(exponents)
             exponent == stripped_slice[1]
         IN  IF stripped_slice = None
             THEN Accuracies(satellites, si, Tail(exponents))
             ELSE IF si < Len(satellites)
             THEN Accuracies(
                      [satellites EXCEPT ![si + 1].accuracy =
                           IF exponent = 0 THEN None
                           ELSE Some(Pow(2, exponent))],
                      si + 1, Tail(exponents))
             ELSE IF exponent > 0
             THEN [satellites |-> satellites, satellite_index |-> si,
                   raised |-> TRUE]
             ELSE Accuracies(satellites, si, Tail(exponents))

RECURSIVE Append3(_, _)
Append3(satellites, packed_ids) ==
    IF packed_ids = <<>> THEN satellites
    ELSE Append3(Append(satellites, Satellite(Head(packed_ids))),
                 Tail(packed_ids))

----------------------------------------------------------------------------
(* The loop body *)

(* Whether the loop body raises on line l once it has chosen pattern id:  *)
(* no pattern matches, a conversion or an assert fails, or a raise        *)
(* statement is met.                                                       *)
Fails(id, l) ==
    CASE id = "garbage" -> TRUE
      [] id = "continue" -> FALSE
      [] OTHER ->
           \/ ~Matches(id, l)
           \/ CASE id = "1" ->
                       start # StartOfWeek(l) \/ start # StartOfMjd(l)
                [] id = "+0" -> l.kind = "+"
                [] id = "++" ->
                       /\ l.kind = "++"
                       /\ Accuracies(product.satellites, satellite_index,
                                     l.exponents).raised
                [] id = "c0" ->
                       l.kind = "%c1" \/ l.time_system \notin TimeSystems
                [] id = "*" ->
                       \/ (state = 8 /\ ~HeaderAsserts)
                       \/ (epoch_index > 0 /\ ~EpochComplete)
                       \/ ~EpochOnGrid(l.date)
                       \/ time_to_utc_raises(product.time_system, l.date)
                [] id = "p" ->
                       \/ ~(satellite_index + 1 < Len(product.satellites))
                       \/ epoch = None
                       \/ l.id # product.satellites[satellite_index + 2].id
                [] id = "v" ->
                       \/ ~(satellite_index < Len(product.satellites))
                       \/ l.id # product.satellites[satellite_index + 1].id
                [] id \in {"ep", "ev"} -> TRUE
                [] OTHER -> FALSE

Raises(l) == Fails(Dispatch(l).id, l)

ReadHeader0 ==
    /\ pc = "loop"
    /\ index = 0
    /\ \E l \in Input :
        LET d == Dispatch(l)
        IN  /\ d.id = "0"
            /\ IF Raises(l)
               THEN Raise(l, d.state)
               ELSE /\ Proceed(l, d.state)
                    /\ product' = [NoProduct EXCEPT !.version = "c"]
                    /\ includes_velocities' = (l.velocity_flag = "V")
                    /\ epochs' = l.epochs
                    /\ start' = l.date
                    /\ UNCHANGED <<satellites_count, satellite_index,
                                   header_complete, epoch_interval,
                                   epoch_index, epoch>>

ReadHeader1 ==
    /\ pc = "loop"
    /\ index = 1
    /\ \E l \in Input :
        LET d == Dispatch(l)
        IN  /\ d.id = "1"
            /\ IF Raises(l)
               THEN Raise(l, d.state)
               ELSE /\ Proceed(l, d.state)
                    /\ epoch_interval' = l.interval
                    /\ UNCHANGED <<product, start, satellites_count,
                                   satellite_index, header_complete,
                                   includes_velocities, epochs, epoch_index,
                                   epoch>>

(* The repeated group of the '+' patterns: the fields, from the first   *)
(* on, that are a word character and two digits each; what the pattern    *)
(* has after the group takes the rest of the line, whatever it is.        *)
PackedGroup(ids) ==
    LET n == CHOOSE n \in 0 .. Len(ids) :
                 /\ \A i \in 1 .. n : ids[i] \in WordIds
                 /\ n < Len(ids) => ids[n + 1] \notin WordIds
    IN  SubSeq(ids, 1, n)

ReadPlus ==
    /\ pc = "loop"
    /\ index = 2 \/ state = 1
    /\ \E l \in Input :
        LET d == Dispatch(l)
        IN  /\ d.id \in {"+0", "+"}
            /\ IF Raises(l)
               THEN Raise(l, d.state)
               ELSE /\ Len(product.satellites) + Len(PackedGroup(l.ids))
                           <= MaxSatellites
                    /\ Proceed(l, d.state)
                    /\ satellites_count' =
                           IF d.id = "+0" THEN l.count ELSE satellites_count
                    /\ product' = [product EXCEPT !.satellites =
                                       Append3(@, PackedGroup(l.ids))]
                    /\ UNCHANGED <<start, satellite_index, header_complete,
                                   includes_velocities, epochs,
                                   epoch_interval, epoch_index, epoch>>

ReadAccuracy ==
    /\ pc = "loop"
    /\ state \in {1, 2}
    /\ \E l \in Input :
        LET d == Dispatch(l)
            a == Accuracies(product.satellites, satellite_index,
                            IF l.kind = "++" THEN l.exponents ELSE <<>>)
        IN  /\ d.id = "++"
            /\ IF Raises(l)
               THEN Raise(l, d.state)
               ELSE /\ Proceed(l, d.state)
                    /\ product' = [product EXCEPT !.satellites = a.satellites]
                    /\ satellite_index' = a.satellite_index
                    /\ UNCHANGED <<start, satellites_count, header_complete,
                                   includes_velocities, epochs,
                                   epoch_interval, epoch_index, epoch>>

ReadC0 ==
    /\ pc = "loop"
    /\ state = 2
    /\ \E l \in Input :
        LET d == Dispatch(l)
        IN  /\ d.id = "c0"
            /\ IF Raises(l)
               THEN Raise(l, d.state)
               ELSE /\ Proceed(l, d.state)
                    /\ product' = [product EXCEPT
                                       !.time_system = l.time_system]
                    /\ UNCHANGED <<start, satellites_count, satellite_index,
                                   header_complete, includes_velocities,
                                   epochs, epoch_interval, epoch_index, epoch>>

(* the second %c line: no field of it is kept *)
ReadC1 ==
    /\ pc = "loop"
    /\ state = 3
    /\ \E l \in Input :
        LET d == Dispatch(l)
        IN  /\ d.id = "c1"
            /\ IF Raises(l)
               THEN Raise(l, d.state)
               ELSE Proceed(l, d.state) /\ UNCHANGED locals

(* the first %f line *)
ReadF0 ==
    /\ pc = "loop"
    /\ state = 4
    /\ \E l \in Input :
        LET d == Dispatch(l)
        IN  /\ d.id = "f0"
            /\ IF Raises(l)
               THEN Raise(l, d.state)
               ELSE Proceed(l, d.state) /\ UNCHANGED locals

(* the second %f line: no field of it is kept *)
ReadF1 ==
    /\ pc = "loop"
    /\ state = 5
    /\ \E l \in Input :
        LET d == Dispatch(l)
        IN  /\ d.id = "f1"
            /\ IF Raises(l)
               THEN Raise(l, d.state)
               ELSE Proceed(l, d.state) /\ UNCHANGED locals

(* the two %i lines: no field of them is kept *)
ReadI ==
    /\ pc = "loop"
    /\ state \in {6, 7}
    /\ \E l \in Input :
        LET d == Dispatch(l)
        IN  /\ d.id = "i"
            /\ IF Raises(l)
               THEN Raise(l, d.state)
               ELSE Proceed(l, d.state) /\ UNCHANGED locals

ReadComment ==
    /\ pc = "loop"
    /\ state = 8
    /\ \E l \in Input :
        LET d == Dispatch(l)
            comment == IF l.kind = "/*" THEN l.text ELSE ""
        IN  /\ d.id = "/"
            /\ IF Raises(l)
               THEN Raise(l, d.state)
               ELSE /\ comment # "" => Len(product.comments) < MaxComments
                    /\ Proceed(l, d.state)
                    /\ product' = [product EXCEPT !.comments =
                                       IF comment # "" THEN Append(@, comment)
                                       ELSE @]
                    /\ UNCHANGED <<start, satellites_count, satellite_index,
                                   header_complete, includes_velocities,
                                   epochs, epoch_interval, epoch_index, epoch>>

ReadEpoch ==
    /\ pc = "loop"
    /\ state \in {8} \cup 10 .. 13
    /\ epoch_index < MaxEpochs
    /\ \E l \in Input :
        LET d == Dispatch(l)
        IN  /\ d.id = "*"
            /\ IF Raises(l)
               THEN Raise(l, d.state)
               ELSE /\ Proceed(l, d.state)
                    /\ header_complete' = (state = 8 \/ header_complete)
                    /\ epoch' = Some(time_to_utc(product.time_system, l.date))
                    /\ epoch_index' = epoch_index + 1
                    /\ satellite_index' = -1
                    /\ UNCHANGED <<product, start, satellites_count,
                                   includes_velocities, epochs,
                                   epoch_interval>>

ReadP ==
    /\ pc = "loop"
    /\ state \in 9 .. 13
    /\ \E l \in Input :
        LET d == Dispatch(l)
            si == satellite_index + 1
        IN  /\ d.id = "p"
            /\ IF Raises(l)
               THEN Raise(l, d.state)
               ELSE /\ Proceed(l, d.state)
                    /\ satellite_index' = si
                    /\ product' = [product EXCEPT
                                       !.satellites[si + 1].records =
                                           Append(@, Record(epoch[1],
                                                            l.position))]
                    /\ UNCHANGED <<start, satellites_count, header_complete,
                                   includes_velocities, epochs,
                                   epoch_interval, epoch_index, epoch>>

ReadEP ==
    /\ pc = "loop"
    /\ state = 10
    /\ \E l \in Input :
        LET d == Dispatch(l)
        IN  /\ d.id = "ep"
            /\ Raises(l)
            /\ Raise(l, d.state)

(* Whether pattern k of id_to_patterns[b"v"] matches a V line: the first *)
(* pattern ends after the three velocity columns without any anchor, so   *)
(* it matches whatever follows them.                                      *)
VPatternMatches(k, l) ==
    CASE k = 1 -> TRUE
      [] k = 2 -> l.columns = "clock"
      [] k = 3 -> l.columns = "std"
      [] OTHER -> l.columns = "clock std"

(* the pattern the loop over id_to_patterns[id] stops at *)
VMatch(l) ==
    CHOOSE k \in 1 .. 4 :
        /\ VPatternMatches(k, l)
        /\ \A j \in 1 .. (k - 1) : ~VPatternMatches(j, l)

(* len(match.groups()) of each of the four patterns *)
groups_count(k) ==
    CASE k = 1 -> 4
      [] k = 2 -> 5
      [] k = 3 -> 8
      [] OTHER -> 9

(* The last record of the satellite after a V line; the values converted *)
(* from the optional columns are kept as the expressions of the source.   *)
WithVelocity(record, l) ==
    LET count == groups_count(VMatch(l))
    IN  [record EXCEPT
             !.velocity = Some(l.velocity),
             !.clock_rate =
                 IF count \in {5, 9} THEN Some("float(match[5])") ELSE @,
             !.velocity_std =
                 IF count = 9
                 THEN Some("position_base ** float(match[6..8]) * 1e-7")
                 ELSE @,
             !.clock_rate_std =
                 IF count = 9
                 THEN Some("clock_base ** float(match[9]) * 1e-16")
                 ELSE @]

(* ReadV without the assert on the id of the line *)
ReadVUnchecked ==
    /\ pc = "loop"
    /\ state \in {10, 11}
    /\ \E l \in Input :
        LET d == Dispatch(l)
            si == satellite_index
        IN  /\ d.id = "v"
            /\ IF ~Matches("v", l)
               THEN Raise(l, d.state)
               ELSE /\ Proceed(l, d.state)
                    /\ product' =
                           [product EXCEPT
                                !.satellites[si + 1].records[
                                     Len(product.satellites[si + 1].records)
                                 ] = WithVelocity(@, l)]
                    /\ UNCHANGED <<start, satellites_count, satellite_index,
                                   header_complete, includes_velocities,
                                   epochs, epoch_interval, epoch_index, epoch>>

ReadV ==
    /\ pc = "loop"
    /\ state \in {10, 11}
    /\ \E l \in Input :
        LET d == Dispatch(l)
            si == satellite_index
        IN  /\ d.id = "v"
            /\ IF Raises(l)
               THEN Raise(l, d.state)
               ELSE /\ Proceed(l, d.state)
                    /\ product' =
                           [product EXCEPT
                                !.satellites[si + 1].records[
                                     Len(product.satellites[si + 1].records)
                                 ] = WithVelocity(@, l)]
                    /\ UNCHANGED <<start, satellites_count, satellite_index,
                                   header_complete, includes_velocities,
                                   epochs, epoch_interval, epoch_index, epoch>>

(* ReadEV with the line skipped instead of refused *)
ReadEVSkipped ==
    /\ pc = "loop"
    /\ state = 12
    /\ \E l \in Input :
        LET d == Dispatch(l)
        IN  /\ d.id = "ev"
            /\ IF ~Matches("ev", l)
               THEN Raise(l, d.state)
               ELSE Proceed(l, d.state) /\ UNCHANGED locals

ReadEV ==
    /\ pc = "loop"
    /\ state = 12
    /\ \E l \in Input :
        LET d == Dispatch(l)
        IN  /\ d.id = "ev"
            /\ Raises(l)
            /\ Raise(l, d.state)

ReadEOF ==
    /\ pc = "loop"
    /\ state \in 10 .. 13
    /\ \E l \in Input :
        LET d == Dispatch(l)
        IN  /\ d.id = "eof"
            /\ IF Raises(l)
               THEN Raise(l, d.state)
               ELSE Proceed(l, d.state) /\ UNCHANGED locals

(* State 14: a line after EOF is skipped when blank and raises otherwise. *)
AfterEOF ==
    /\ pc = "loop"
    /\ state = 14
    /\ \E l \in Input :
        LET d == Dispatch(l)
        IN  /\ d.id \in {"garbage", "continue"}
            /\ IF Raises(l)
               THEN Raise(l, d.state)
               ELSE Proceed(l, d.state) /\ UNCHANGED locals

(* The input is exhausted: the asserts after the loop, then the return.   *)
(* An assert that fails there is not raised on a line.                    *)
Return ==
    /\ pc = "loop"
    /\ index > 0
    /\ IF FinalAsserts
       THEN /\ pc' = "returned"
            /\ UNCHANGED <<index, line, state>>
            /\ UNCHANGED locals
            /\ UNCHANGED library
       ELSE Raise(NoLine, state)

Next ==
    \/ ReadHeader0
    \/ ReadHeader1
    \/ ReadPlus
    \/ ReadAccuracy
    \/ ReadC0
    \/ ReadC1
    \/ ReadF0
    \/ ReadF1
    \/ ReadI
    \/ ReadComment
    \/ ReadEpoch
    \/ ReadP
    \/ ReadEP
    \/ ReadV
    \/ ReadEV
    \/ ReadEOF
    \/ AfterEOF
    \/ Return

Spec == Init /\ [][Next]_vars

----------------------------------------------------------------------------
(* Properties of Product.from_bytes *)

(* C1: when from_bytes returns, the number of '* ' headers read is the    *)
(* epoch count of header line 1 and every satellite has that many         *)
(* records, so no epoch lacks a P line or has one too many.               *)
C1_RecordsPerEpoch ==
    pc = "returned" =>
        /\ epoch_index = epochs
        /\ \A i \in 1 .. Len(product.satellites) :
               Len(product.satellites[i].records) = epochs

C1_Witness ==
    /\ pc = "returned"
    /\ Len(product.satellites) >= 2
    /\ epochs >= 2

(* C2 as claimed: in a velocity-flagged file the V line of the satellite  *)
(* of the P line just read is accepted, for any number of satellites.     *)
C2_VAfterEveryP ==
    [][(pc = "loop" /\ includes_velocities /\ line.kind = "P")
         => ~(pc' = "raised" /\ line'.kind = "V" /\ line'.id = line.id)]_vars

(* C3: when from_bytes returns, every record has a velocity if header     *)
(* line 1 carries the flag V and no record has one if it carries P.       *)
C3_VelocityFlag ==
    pc = "returned" =>
        \A i \in 1 .. Len(product.satellites) :
            \A k \in 1 .. Len(product.satellites[i].records) :
                (product.satellites[i].records[k].velocity # None)
                    <=> includes_velocities

C3_Witness ==
    /\ pc = "returned"
    /\ includes_velocities
    /\ Len(product.satellites) >= 1
    /\ Len(product.satellites[1].records) >= 1
    /\ product.satellites[1].records[1].velocity # None

(* C4 as claimed: the records of every satellite of a returned product    *)
(* are strictly ascending in time, whatever the epoch interval.           *)
C4_StrictlyAscending ==
    pc = "returned" =>
        \A i \in 1 .. Len(product.satellites) :
            \A k \in 1 .. Len(product.satellites[i].records) - 1 :
                product.satellites[i].records[k].time
                    < product.satellites[i].records[k + 1].time

C6_HeaderCrossChecks ==
    /\ (pc = "loop" /\ line.kind = "##") =>
           /\ start = line.week * 604800 + line.sow
           /\ start = (line.mjd - 44244) * 86400 + line.fod
    /\ (pc = "loop" /\ line.kind = "*") =>
           line.date = start + (epoch_index - 1) * epoch_interval

C6_Witness ==
    /\ pc = "returned"
    /\ epochs >= 2
    /\ epoch_interval > 0

(* C7: once EOF is consumed a line is skipped only if it is white space   *)
(* and then changes nothing, a line with another character raises, and    *)
(* the product is the same at the return.                                 *)
C7_AfterEOF ==
    [][(pc = "loop" /\ state = 14) =>
         /\ pc' = "loop" =>
                line'.kind = "" /\ product' = product /\ state' = 14
         /\ (pc' = "raised" /\ line' # NoLine) => line'.kind # ""
         /\ pc' = "returned" => product' = product]_vars

C7_Witness ==
    /\ pc = "returned"
    /\ state = 14
    /\ line.kind = ""
    /\ Len(product.satellites) >= 1
    /\ Len(product.satellites[1].records) = epochs

(* C8: a line of the record region that starts with EP or EV is where     *)
(* parsing raises.                                                         *)
C8_CorrelationLinesRaise ==
    line.kind \in {"EP", "EV"} => pc = "raised"

C8_Witness ==
    /\ pc = "raised"
    /\ line.kind = "EV"
    /\ state = 13

(* C9: the first epoch header is accepted only if as many ids were        *)
(* collected, and as many accuracy exponents assigned, as the first '+'   *)
(* line declares; and a '++' line is accepted only if every exponent it   *)
(* carries beyond the last satellite is zero.                             *)
C9_HeaderCounts ==
    [][/\ (pc = "loop" /\ state = 8 /\ pc' = "loop" /\ state' = 9) =>
              /\ Len(product.satellites) = satellites_count
              /\ satellite_index = satellites_count
       /\ (pc = "loop" /\ pc' = "loop" /\ line'.kind = "++") =>
              LET given == SelectSeq(line'.exponents,
                                     LAMBDA e : e # None)
                  room == Len(product.satellites) - satellite_index
              IN  \A j \in 1 .. Len(given) :
                      j > room => given[j] = Some(0)]_vars

C9_Witness ==
    /\ pc = "loop"
    /\ state = 9
    /\ epoch_index = 1
    /\ Len(product.satellites) = 2

(* C10 as claimed: a line that is accepted when nothing follows its last  *)
(* column is accepted when a CR or white space follows it.                *)
C10_TerminatorTolerated ==
    [][(pc = "loop" /\ pc' = "raised" /\ line' # NoLine
          /\ line'.trail # "")
         => Raises([line' EXCEPT !.trail = ""])]_vars

(* C30: a record is appended to a satellite only by a P line that names  *)
(* it and comes at its place in the header order, and a velocity is set   *)
(* only on the last record of the satellite named by the P line just      *)
(* before the V line; a P line naming another satellite than the next of  *)
(* the header, and a V line naming another than the P line before it, is  *)
(* refused.                                                               *)
C30_SatelliteOrder ==
    [][pc = "loop" =>
           /\ \A i \in 1 .. Len(product.satellites) :
                  (/\ pc' = "loop"
                   /\ Len(product'.satellites) = Len(product.satellites)
                   /\ product'.satellites[i].records
                          # product.satellites[i].records) =>
                      LET old == product.satellites[i].records
                          new == product'.satellites[i].records
                      IN  /\ \A k \in 1 .. Len(product.satellites) :
                                 k # i => product'.satellites[k]
                                              = product.satellites[k]
                          /\ \/ /\ line'.kind = "P"
                                /\ line'.id = product.satellites[i].id
                                /\ i = satellite_index + 2
                                /\ Len(new) = Len(old) + 1
                                /\ SubSeq(new, 1, Len(old)) = old
                                /\ new[Len(new)].velocity = None
                             \/ /\ line'.kind = "V"
                                /\ line.kind = "P"
                                /\ line.id = line'.id
                                /\ line'.id = product.satellites[i].id
                                /\ i = satellite_index + 1
                                /\ new = [old EXCEPT ![Len(old)].velocity =
                                              Some(line'.velocity)]
           /\ (/\ line'.kind = "P"
               /\ \/ satellite_index + 2 > Len(product.satellites)
                  \/ line'.id # product.satellites[satellite_index + 2].id)
                  => pc' # "loop"
           /\ (line'.kind = "V" /\ ~(line.kind = "P" /\ line.id = line'.id))
                  => pc' # "loop"]_vars

(* The P line of the second satellite of the header was accepted and its *)
(* record appended.                                                       *)
C30_Witness ==
    /\ pc = "loop"
    /\ Len(product.satellites) = 2
    /\ Len(product.satellites[2].records) >= 1
    /\ line.kind = "P"
    /\ line.id = product.satellites[2].id

(* C31 as claimed: between the second '%i' line and the first epoch      *)
(* header every line that begins with '/*' is taken as a comment line,    *)
(* the line '/*' with nothing after it included; its text is appended to  *)
(* the comments when it is not empty and skipped when it is.              *)
C31_CommentLinesAccepted ==
    [][(pc = "loop" /\ state = 8 /\ line' # NoLine
          /\ line'.kind \in {"/*", "/*bare"})
         => /\ pc' = "loop"
            /\ state' = 8
            /\ product'.comments =
                   IF line'.kind = "/*" /\ line'.text # ""
                   THEN Append(product.comments, line'.text)
                   ELSE product.comments]_vars

(* satellite.py sp3_pattern, ^[A-Z]\d{2}$, on the fields tried *)
sp3_pattern(id) == id \in {"G01", "G02"}

(* C33 as claimed: every satellite id of a returned Product is an         *)
(* uppercase letter followed by two digits, and a header line or a P line *)
(* that names an id of another shape is refused.                          *)
C33_SatelliteIdShape ==
    /\ [](pc = "returned" =>
              \A i \in 1 .. Len(product.satellites) :
                  sp3_pattern(product.satellites[i].id))
    /\ [][(/\ pc = "loop"
           /\ line' # NoLine
           /\ \/ /\ line'.kind \in {"+0", "+"}
                 /\ \E i \in 1 .. Len(line'.ids) :
                        ~sp3_pattern(line'.ids[i])
              \/ /\ line'.kind = "P"
                 /\ state \in 9 .. 13
                 /\ ~sp3_pattern(line'.id))
          => pc' = "raised"]_vars

(* C32 as claimed: after a V line is accepted, the clock rate and the    *)
(* standard deviations of the record are set exactly when the line has    *)
(* the columns for them.                                                   *)
C32_OptionalVelocityColumns ==
    [][(pc = "loop" /\ pc' = "loop" /\ state \in {10, 11}
          /\ line'.kind = "V")
         => LET rs == product'.satellites[satellite_index + 1].records
                r == rs[Len(rs)]
            IN  /\ (r.clock_rate # None)
                       <=> (line'.columns \in {"clock", "clock std"})
                /\ (r.velocity_std # None)
                       <=> (line'.columns \in {"std", "clock std"})
                /\ (r.clock_rate_std # None)
                       <=> (line'.columns \in {"std", "clock std"})]_vars

(* C39 as claimed: a Product is returned only when an EOF line was       *)
(* consumed after the last record line.                                   *)
C39_EofRequired ==
    pc = "returned" => state = 14

----------------------------------------------------------------------------
(* sp3/timesystem.py: calls of the three methods of TimeSystem             *)

TimeInstants == (0 - MaxLead) .. (LeapSecondTai + MaxLead)
Offsets == (0 - MaxOffset) .. MaxOffset

Raised == [raised |-> TRUE, value |-> None]
Returned(value) == [raised |-> FALSE, value |-> Some(value)]

CallTimeToUtc ==
    /\ \E time_system \in TimeSystems, time \in TimeInstants :
          /\ call' = [fn |-> "time_to_utc", time_system |-> time_system,
                      time |-> time]
          /\ outcome' = IF time_to_utc_raises(time_system, time)
                        THEN Raised
                        ELSE Returned(time_to_utc(time_system, time))
    /\ UNCHANGED <<parser, polynomial, built, network>>

CallTimeFromUtc ==
    /\ \E time_system \in TimeSystems, time \in TimeInstants :
          /\ call' = [fn |-> "time_from_utc", time_system |-> time_system,
                      time |-> time]
          /\ outcome' = Returned(time_from_utc(time_system, time))
    /\ UNCHANGED <<parser, polynomial, built, network>>

CallOffsetSeconds ==
    /\ \E time_system \in TimeSystems, time \in TimeInstants,
           offset \in Offsets :
          /\ call' = [fn |-> "offset_seconds", time_system |-> time_system,
                      time |-> time, offset |-> offset]
          /\ outcome' = Returned(offset_seconds(time_system, time, offset))
    /\ UNCHANGED <<parser, polynomial, built, network>>

NextTime ==
    \/ CallTimeToUtc
    \/ CallTimeFromUtc
    \/ CallOffsetSeconds

SpecTime == Init /\ [][NextTime]_vars

----------------------------------------------------------------------------
(* sp3/__init__.py: narrowed_records_to_piecewise_polynomial                *)
(*                                                                          *)
(* The records given to the builder are strictly ascending in time, at even *)
(* instants, so that the midpoints the builder computes are whole numbers.  *)

Gaps == {2, 4}
FirstTimes == {2}
Dimensions == 1 .. 3

RECURSIVE AscendingTimes(_)
AscendingTimes(n) ==
    IF n = 0 THEN {<<>>}
    ELSE IF n = 1 THEN {<<t>> : t \in FirstTimes}
    ELSE {Append(ts, ts[n - 1] + g) : ts \in AscendingTimes(n - 1), g \in Gaps}

(* every record with a velocity, none, or all but the last *)
VelocityPatterns(n) ==
    {[i \in 1 .. n |-> v] : v \in {None} \cup {Some(w) : w \in Velocities}}
      \cup {[i \in 1 .. n |-> IF i = n THEN None ELSE Some(w)] :
                w \in Velocities}

RecordSequences ==
    UNION {{[i \in 1 .. n |->
                [Record(ts[i], p) EXCEPT !.velocity = vs[i]]] :
               ts \in AscendingTimes(n), vs \in VelocityPatterns(n),
               p \in Positions} : n \in 0 .. MaxRecords}

Windows == (0 - 1) .. MaxWindow
Degrees == (0 - 1) .. MaxDegree

(* a[i] of Python: a negative index counts from the end *)
PyIndex(a, i) == IF i < 0 THEN a[Len(a) + i + 1] ELSE a[i + 1]

(* a[from : to] of Python and numpy *)
Slice(a, from, to) ==
    LET clamp(i) == IF i < 0 THEN (IF Len(a) + i < 0 THEN 0 ELSE Len(a) + i)
                    ELSE IF i > Len(a) THEN Len(a) ELSE i
    IN  SubSeq(a, clamp(from) + 1, clamp(to))

(* total_seconds(record.time - records[0].time), lines 162-164 *)
relative_record_time(records) ==
    [i \in 1 .. Len(records) |-> records[i].time - records[1].time]

(* the differences to the first entry, for those to the entry before *)
DiffToFirst(a) == [i \in 1 .. (IF Len(a) = 0 THEN 0 ELSE Len(a) - 1) |->
                       a[i + 1] - a[1]]

(* numpy.diff *)
Diff(a) == [i \in 1 .. (IF Len(a) = 0 THEN 0 ELSE Len(a) - 1) |->
                a[i + 1] - a[i]]

(* a - b on two vectors: the halving forgotten *)
MinusWhole(a, b) ==
    IF Len(a) = Len(b) THEN [i \in 1 .. Len(a) |-> a[i] - b[i]]
    ELSE IF Len(b) = 1 THEN [i \in 1 .. Len(a) |-> a[i] - b[1]]
    ELSE [i \in 1 .. Len(b) |-> a[1] - b[i]]

(* a - b / 2 of numpy on two vectors: an axis of length 1 is stretched *)
MinusHalf(a, b) ==
    IF Len(a) = Len(b) THEN [i \in 1 .. Len(a) |-> a[i] - b[i] \div 2]
    ELSE IF Len(b) = 1 THEN [i \in 1 .. Len(a) |-> a[i] - b[1] \div 2]
    ELSE [i \in 1 .. Len(b) |-> a[1] - b[i] \div 2]

(* The coefficient of x^k, in dimension d, of the fit of lines 177-188:   *)
(* polyfit(x, (samples - mean) / std, deg = degree) * std, plus mean when *)
(* k = 0.  The number is not computed: the term names its arguments.      *)
Fitted(x, samples, degree, k, d) ==
    [k |-> k, d |-> d, degree |-> degree, x |-> x, samples |-> samples]

(* The array of lines 171-188, as coefficients[k + 1][index + 1][d], for  *)
(* the samples `of` the records (positions or velocities).                *)
FittedCoefficients(records, window, degree, of) ==
    LET N == Len(records)
        rel == relative_record_time(records)
        offset == Slice(rel, window, N - window)
    IN  [k1 \in 1 .. degree + 1 |->
            [i1 \in 1 .. N - 2 * window |->
                [d \in Dimensions |->
                    Fitted([n \in 1 .. 2 * window + 1 |->
                                Slice(rel, i1 - 1, i1 + 2 * window)[n]
                                    - offset[i1]],
                           [n \in 1 .. 2 * window + 1 |->
                                of[i1 - 1 + n]],
                           degree, k1 - 1, d)]]]

(* n * c, of a term c *)
Scaled(n, c) == [times |-> n, c |-> c]

(* polyder without the factor j of row j *)
polyder_unscaled(c) ==
    IF 1 >= Len(c)
    THEN [k1 \in 1 .. 1 |->
             [i1 \in 1 .. Len(c[1]) |->
                 [d \in Dimensions |-> Scaled(0, c[1][i1][d])]]]
    ELSE [k1 \in 1 .. Len(c) - 1 |->
             [i1 \in 1 .. Len(c[1]) |->
                 [d \in Dimensions |-> Scaled(1, c[k1 + 1][i1][d])]]]

(* numpy.polynomial.polynomial.polyder(c) along the first axis: one row   *)
(* less than c, row j - 1 being j * c[j]; a single row of zeros when c    *)
(* has one row.                                                           *)
polyder(c) ==
    IF 1 >= Len(c)
    THEN [k1 \in 1 .. 1 |->
             [i1 \in 1 .. Len(c[1]) |->
                 [d \in Dimensions |-> Scaled(0, c[1][i1][d])]]]
    ELSE [k1 \in 1 .. Len(c) - 1 |->
             [i1 \in 1 .. Len(c[1]) |->
                 [d \in Dimensions |-> Scaled(k1, c[k1 + 1][i1][d])]]]

(* all(record.velocity is not None for record in records), line 189 *)
AllVelocities(records) ==
    \A i \in 1 .. Len(records) : records[i].velocity # None

(* The asserts of lines 157-158. *)
ParametersAsserted(window, degree) ==
    degree >= 0 /\ window * 2 + 1 > degree

(* len(records) < window * 2 + 1, with <= *)
InsufficientOrExact(records, window) == Len(records) <= window * 2 + 1

(* The test of line 159. *)
Insufficient(records, window) == Len(records) < window * 2 + 1

(* The object of lines 215-223. *)
PiecewisePolynomial(records, window, degree) ==
    LET N == Len(records)
        rel == relative_record_time(records)
        coefficients ==
            FittedCoefficients(records, window, degree,
                               [i \in 1 .. N |-> records[i].position])
    IN  [minimum_time |-> PyIndex(records, window).time,
         maximum_time |-> PyIndex(records, 0 - window).time,
         reference_time |-> PyIndex(records, 0).time,
         offset |-> Slice(rel, window, N - window),
         begin |-> MinusHalf(Slice(rel, window, N - window),
                             Slice(Diff(rel), window - 1, N - window - 1)),
         coefficients |-> coefficients,
         velocity_coefficients |->
             IF AllVelocities(records)
             THEN FittedCoefficients(records, window, degree,
                                     [i \in 1 .. N |->
                                          records[i].velocity[1]])
             ELSE polyder(coefficients)]

RaisedWith(what) == [raised |-> TRUE, value |-> Some(what)]

Build ==
    /\ call = NoCall
    /\ polynomial = None
    /\ \E records \in RecordSequences, window \in Windows,
          degree \in Degrees :
          /\ call' = [fn |-> "narrowed_records_to_piecewise_polynomial",
                      records |-> records, window |-> window,
                      degree |-> degree]
          /\ IF ~ParametersAsserted(window, degree)
             THEN /\ outcome' = RaisedWith("AssertionError")
                  /\ UNCHANGED <<polynomial, built>>
             ELSE IF Insufficient(records, window)
             THEN /\ outcome' = RaisedWith("insufficient number of records")
                  /\ UNCHANGED <<polynomial, built>>
             ELSE /\ outcome' = NoOutcome
                  /\ polynomial' =
                         Some(PiecewisePolynomial(records, window, degree))
                  /\ built' = Some([records |-> records,
                                    window |-> window, degree |-> degree])
    /\ UNCHANGED <<parser, network>>

----------------------------------------------------------------------------
(* sp3/__init__.py: PiecewisePolynomial.__call__                            *)

QueryInstants == 0 .. (4 * MaxRecords)

(* obstime: one instant, or two neighbours in either order, in the UTC    *)
(* scale; one instant in another scale                                    *)
Obstimes ==
    [scale : {"utc"}, instants : {<<t>> : t \in QueryInstants}]
      \cup [scale : {"utc"},
            instants : {<<t, t + 1>> : t \in QueryInstants}
                         \cup {<<t + 1, t>> : t \in QueryInstants}]
      \cup [scale : {"tai"}, instants : {<<t>> : t \in QueryInstants}]

SeqMin(a) == CHOOSE x \in {a[i] : i \in 1 .. Len(a)} :
                 \A i \in 1 .. Len(a) : x <= a[i]
SeqMax(a) == CHOOSE x \in {a[i] : i \in 1 .. Len(a)} :
                 \A i \in 1 .. Len(a) : x >= a[i]

(* numpy.searchsorted(a, v, side="left"): a[i - 1] < v <= a[i] *)
RECURSIVE searchsorted_left(_, _, _, _)
searchsorted_left(a, v, lo, hi) ==
    IF lo >= hi THEN lo
    ELSE LET mid == (lo + hi) \div 2
         IN  IF a[mid + 1] < v
             THEN searchsorted_left(a, v, mid + 1, hi)
             ELSE searchsorted_left(a, v, lo, mid)

(* numpy.searchsorted(a, v, side="right"): the bisection for the place i  *)
(* with a[i - 1] <= v < a[i], begun with lo = 0 and hi = len(a)           *)
RECURSIVE searchsorted_right(_, _, _, _)
searchsorted_right(a, v, lo, hi) ==
    IF lo >= hi THEN lo
    ELSE LET mid == (lo + hi) \div 2
         IN  IF a[mid + 1] <= v
             THEN searchsorted_right(a, v, mid + 1, hi)
             ELSE searchsorted_right(a, v, lo, mid)

(* polyval(x, c, tensor=False): the value at x of the polynomial of a     *)
(* column c of coefficients, kept as a term                               *)
Polyval(x, c) == [at |-> x, c |-> c]

(* The column [:, index, d] of an array of coefficients. *)
Column(c, i, d) == [k1 \in 1 .. Len(c) |-> PyIndex(c[k1], i)[d]]

(* Lines 82-149 for one instant of obstime. *)
Evaluate(p, instant) ==
    LET relative_obstime == instant - p.reference_time
        interval == searchsorted_right(p.begin, relative_obstime,
                                    0, Len(p.begin)) - 1
        x == relative_obstime - PyIndex(p.offset, interval)
    IN  [index |-> interval,
         relative_obstime |-> x,
         x |-> Polyval(x, Column(p.coefficients, interval, 1)),
         y |-> Polyval(x, Column(p.coefficients, interval, 2)),
         z |-> Polyval(x, Column(p.coefficients, interval, 3)),
         v_x |-> Polyval(x, Column(p.velocity_coefficients, interval, 1)),
         v_y |-> Polyval(x, Column(p.velocity_coefficients, interval, 2)),
         v_z |-> Polyval(x, Column(p.velocity_coefficients, interval, 3)),
         obstime |-> instant]

(* The raise of lines 78-81. *)
TooLate(p, obstime) == SeqMax(obstime.instants) >= p.maximum_time

(* The raise of lines 73-76. *)
TooEarly(p, obstime) == SeqMin(obstime.instants) < p.minimum_time

(* Call with the offsets moved in place: relative_obstime taken as a     *)
(* view of self.offset before the -= of line 86                          *)
CallInPlace ==
    /\ polynomial # None
    /\ \E obstime \in Obstimes :
          /\ call' = [fn |-> "__call__", obstime |-> obstime]
          /\ IF obstime.scale # "utc"
             THEN /\ outcome' = RaisedWith("AssertionError")
                  /\ UNCHANGED polynomial
             ELSE IF TooEarly(polynomial[1], obstime)
             THEN /\ outcome' = RaisedWith("the first obstime is too close")
                  /\ UNCHANGED polynomial
             ELSE IF TooLate(polynomial[1], obstime)
             THEN /\ outcome' = RaisedWith("the last obstime is too close")
                  /\ UNCHANGED polynomial
             ELSE /\ outcome' =
                         Returned([n \in 1 .. Len(obstime.instants) |->
                                      Evaluate(polynomial[1],
                                               obstime.instants[n])])
                  /\ polynomial' =
                         Some([polynomial[1] EXCEPT !.offset =
                                   [i \in 1 .. Len(polynomial[1].offset) |->
                                        polynomial[1].offset[i]
                                            - obstime.instants[1]]])
    /\ UNCHANGED built
    /\ UNCHANGED <<parser, network>>

Call ==
    /\ polynomial # None
    /\ \E obstime \in Obstimes :
          /\ call' = [fn |-> "__call__", obstime |-> obstime]
          /\ outcome' =
                 IF obstime.scale # "utc"
                 THEN RaisedWith("AssertionError")
                 ELSE IF TooEarly(polynomial[1], obstime)
                 THEN RaisedWith("the first obstime is too close")
                 ELSE IF TooLate(polynomial[1], obstime)
                 THEN RaisedWith("the last obstime is too close")
                 ELSE Returned([n \in 1 .. Len(obstime.instants) |->
                                   Evaluate(polynomial[1],
                                            obstime.instants[n])])
    /\ UNCHANGED <<polynomial, built>>
    /\ UNCHANGED <<parser, network>>

NextPolynomial ==
    \/ Build
    \/ Call

SpecPolynomial == Init /\ [][NextPolynomial]_vars

----------------------------------------------------------------------------
(* sp3/provider.py: Provider.download and CddisSearchProvider.download      *)
(*                                                                          *)
(* A provider names one file per day of its time system.  The server        *)
(* answers a request with a status and, for status 200, with a body that    *)
(* arrives in MaxChunks chunks unless the stream breaks before.  A file      *)
(* holds the body it was written from and the number of chunks written.     *)

(* A day of the model, in seconds: long enough for the 19 s between GPS  *)
(* time and TAI and for the leap second to fall within half of it.        *)
DayLength == 2 * (GpsTaiOffset + 1)

(* The statuses for which raise_for_status raises, line 80. *)
StatusNotFound == 404
ErrorStatuses == {StatusNotFound, 500}

Bodies == {"lookup", "one", "two", "overlap"}
DownloadBodies == {"one", "two"}

Responses(bodies) ==
    [status : ErrorStatuses]
      \cup [status : {200}, body : bodies, sent : 1 .. MaxChunks]

(* The answers of a server that holds nothing for a day out of its       *)
(* range.  A stream that breaks is one of the smallest body, broken       *)
(* after its first chunk.                                                 *)
Served(day) ==
    IF day < 0 - MaxDay \/ day > MaxDay THEN {[status |-> StatusNotFound]}
    ELSE {r \in Responses(Bodies) :
              \/ r.status \in ErrorStatuses
              \/ r.sent = MaxChunks
              \/ (r.sent = 1 /\ r.body = "one")}

(* The answers tried on the candidates of a search. *)
SearchResponses == {r \in Responses({"one"}) :
                        r.status \in ErrorStatuses \/ r.sent = MaxChunks}

(* The time system of each provider of the list. *)
TimeSystemOf(provider) == IF provider = 1 THEN "GPS" ELSE "UTC"

(* The name that lines 102-104 format from time_to_parameters(time): the *)
(* parameters are those of the day of time_from_utc(time).                *)
Name(provider, time_system, time) ==
    [provider |-> provider,
     day |-> time_from_utc(time_system, time) \div DayLength,
     suffix |-> ""]

InProgress(name) == [name EXCEPT !.suffix = ".download"]

(* requests.exceptions.HTTPError as raise_for_status raises it: the       *)
(* status is on error.response, and error.errno is None.                  *)
HTTPError(status) ==
    [error |-> "HTTPError", status_code |-> status, errno |-> None]

ConnectionError == [error |-> "ConnectionError"]

(* the failed assert of line 232 *)
NoCandidate == [error |-> "AssertionError"]

(* download writing to the final name at once, without the twin *)
download_in_place(directory, name, force, response) ==
    IF ~force /\ directory[name] # None
    THEN [files |-> directory, requests |-> <<>>,
          outcome |-> Returned(name)]
    ELSE LET opened == [directory EXCEPT ![name] =
                            Some([body |-> "", written |-> 0])]
         IN  IF response.status \in ErrorStatuses
             THEN [files |-> opened, requests |-> <<name>>,
                   outcome |-> RaisedWith(HTTPError(response.status))]
             ELSE LET output == [body |-> response.body,
                                 written |-> response.sent]
                      wrote == [opened EXCEPT ![name] = Some(output)]
                  IN  IF response.sent < MaxChunks
                      THEN [files |-> wrote, requests |-> <<name>>,
                            outcome |-> RaisedWith(ConnectionError)]
                      ELSE [files |-> wrote, requests |-> <<name>>,
                            outcome |-> Returned(name)]

(* Lines 105-110 on a directory: what the directory is afterwards, which  *)
(* requests went out, and what is returned or raised.                     *)
download(directory, name, force, response) ==
    IF ~force /\ directory[name] # None
    THEN [files |-> directory, requests |-> <<>>,
          outcome |-> Returned(name)]
    ELSE LET opened == [directory EXCEPT ![InProgress(name)] =
                            Some([body |-> "", written |-> 0])]
         IN  IF response.status \in ErrorStatuses
             THEN [files |-> opened, requests |-> <<name>>,
                   outcome |-> RaisedWith(HTTPError(response.status))]
             ELSE LET output == [body |-> response.body,
                                 written |-> response.sent]
                      wrote == [opened EXCEPT ![InProgress(name)] =
                                    Some(output)]
                  IN  IF response.sent < MaxChunks
                      THEN [files |-> wrote, requests |-> <<name>>,
                            outcome |-> RaisedWith(ConnectionError)]
                      ELSE [files |-> [wrote EXCEPT
                                           ![InProgress(name)] = None,
                                           ![name] = Some(output)],
                            requests |-> <<name>>,
                            outcome |-> Returned(name)]

DownloadTimes == {0}

(* Download with the cached file never looked for *)
DownloadForced ==
    /\ call.fn \in {"none", "Provider.download",
                    "CddisSearchProvider.download"}
    /\ \E provider \in {1}, time \in DownloadTimes, force \in BOOLEAN :
        LET name == Name(provider, TimeSystemOf(provider), time)
        IN  \E response \in Responses(DownloadBodies) :
                LET done == download(files, name, TRUE, response)
                IN  /\ call' = [fn |-> "Provider.download",
                                name |-> name, force |-> force,
                                response |-> response]
                    /\ files' = done.files
                    /\ requests' = done.requests
                    /\ outcome' = done.outcome
    /\ UNCHANGED <<parser, polynomial, built, loading, concurrent>>

(* Provider.download, lines 96-110 *)
Download ==
    /\ call.fn \in {"none", "Provider.download",
                    "CddisSearchProvider.download"}
    /\ \E provider \in {1}, time \in DownloadTimes, force \in BOOLEAN :
        LET name == Name(provider, TimeSystemOf(provider), time)
        IN  \E response \in Responses(DownloadBodies) :
                LET done == download(files, name, force, response)
                IN  /\ call' = [fn |-> "Provider.download",
                                name |-> name, force |-> force,
                                response |-> response]
                    /\ files' = done.files
                    /\ requests' = done.requests
                    /\ outcome' = done.outcome
    /\ UNCHANGED <<parser, polynomial, built, loading, concurrent>>

(* The loop of lines 212-231 from candidate `offset` on, and lines        *)
(* 232-233 after it.  names[offset + 1] is the name of the candidate      *)
(* `offset` days before the time asked for.                               *)
RECURSIVE search(_, _, _, _, _, _, _)
search(directory, names, force, responses, offset, http_error, issued) ==
    IF offset >= Len(names)
    THEN [files |-> directory, requests |-> issued,
          outcome |-> IF http_error = None
                      THEN RaisedWith(NoCandidate)
                      ELSE RaisedWith(http_error[1])]
    ELSE LET done == download(directory, names[offset + 1], force,
                              responses[offset + 1])
             error == done.outcome.value[1]
         IN  IF ~done.outcome.raised
             THEN [files |-> done.files,
                   requests |-> issued \o done.requests,
                   outcome |-> done.outcome]
             ELSE IF error.error # "HTTPError"
             THEN [files |-> done.files,
                   requests |-> issued \o done.requests,
                   outcome |-> done.outcome]
             ELSE IF error.errno = Some(StatusNotFound)
             THEN search(done.files, names, force, responses, offset + 1,
                         Some(error), issued \o done.requests)
             ELSE [files |-> done.files,
                   requests |-> issued \o done.requests,
                   outcome |-> done.outcome]

(* CddisSearchProvider.download, lines 204-233 *)
SearchDownload ==
    /\ call.fn \in {"none", "Provider.download",
                    "CddisSearchProvider.download"}
    /\ \E provider \in {1}, time \in DownloadTimes, force \in BOOLEAN,
          begin_end_delta \in 0 .. MaxDelta :
        LET names == [k \in 1 .. begin_end_delta |->
                          Name(provider, TimeSystemOf(provider),
                               time - (k - 1) * DayLength)]
        IN  \E responses \in [1 .. begin_end_delta -> SearchResponses] :
                /\ LET done == search(files, names, force, responses, 0,
                                      None, <<>>)
                   IN  /\ call' = [fn |-> "CddisSearchProvider.download",
                                   names |-> names, force |-> force,
                                   responses |-> responses]
                       /\ files' = done.files
                       /\ requests' = done.requests
                       /\ outcome' = done.outcome
    /\ UNCHANGED <<parser, polynomial, built, loading, concurrent>>

NextDownload ==
    \/ Download
    \/ SearchDownload

SpecDownload == Init /\ [][NextDownload]_vars

----------------------------------------------------------------------------
(* sp3/provider.py: Provider.download run by several callers at once, for  *)
(* the same name in the same download_directory.  Every caller is served   *)
(* the same complete body, chunk by chunk.  A name of the directory leads  *)
(* to an inode; an open file stays on its inode whatever the names do.     *)

(* the body of the file, as the chunks 1 .. MaxChunks in order *)
CompleteBody == [k \in 1 .. MaxChunks |-> k]

(* output.write(chunk) at the position of the file object: a write past  *)
(* the end of a file that was truncated meanwhile leaves a hole of zeros. *)
WriteAt(content, position, chunk) ==
    IF position < Len(content)
    THEN [content EXCEPT ![position + 1] = chunk]
    ELSE content \o [k \in 1 .. (position - Len(content)) |-> 0]
                 \o <<chunk>>

Moved(p, caller) ==
    [concurrent EXCEPT !.callers[p] = caller]

(* Lines 102-104: the call begins. *)
EnterDownload(p) ==
    /\ concurrent.callers[p].pc = "idle"
    /\ \E force \in BOOLEAN :
           concurrent' = Moved(p, [Idle EXCEPT !.pc = "check",
                                               !.force = force])
    /\ UNCHANGED <<parser, call, outcome, polynomial, built, files,
                   requests, loading>>

(* Lines 105-106: the cached file is returned when there is one. *)
CheckCached(p) ==
    LET caller == concurrent.callers[p]
    IN  /\ caller.pc = "check"
        /\ concurrent' =
               IF ~caller.force /\ concurrent.directory.final # 0
               THEN Moved(p, [caller EXCEPT !.pc = "returned"])
               ELSE Moved(p, [caller EXCEPT !.pc = "open"])
        /\ UNCHANGED <<parser, call, outcome, polynomial, built, files,
                       requests, loading>>

(* Line 107: open(..., "wb") creates '<name>.download', or truncates the  *)
(* file of that name when there is one.                                    *)
OpenOutput(p) ==
    LET caller == concurrent.callers[p]
        existing == concurrent.directory.download
        created == Len(concurrent.inodes) + 1
    IN  /\ caller.pc = "open"
        /\ concurrent' =
               IF existing = 0
               THEN [concurrent EXCEPT
                         !.directory.download = created,
                         !.inodes = Append(@, <<>>),
                         !.callers[p] = [caller EXCEPT !.pc = "write",
                                                       !.output = created,
                                                       !.position = 0]]
               ELSE [concurrent EXCEPT
                         !.inodes[existing] = <<>>,
                         !.callers[p] = [caller EXCEPT !.pc = "write",
                                                       !.output = existing,
                                                       !.position = 0]]
        /\ UNCHANGED <<parser, call, outcome, polynomial, built, files,
                       requests, loading>>

(* Lines 76-84 and 108: one chunk of the response is written; after the  *)
(* last one the file is closed.                                            *)
WriteChunk(p) ==
    LET caller == concurrent.callers[p]
        chunk == caller.position + 1
    IN  /\ caller.pc = "write"
        /\ concurrent' =
               [concurrent EXCEPT
                    !.inodes[caller.output] =
                        WriteAt(@, caller.position, chunk),
                    !.callers[p] =
                        [caller EXCEPT
                             !.position = chunk,
                             !.pc = IF chunk = MaxChunks THEN "rename"
                                    ELSE "write"]]
        /\ UNCHANGED <<parser, call, outcome, polynomial, built, files,
                       requests, loading>>

(* Lines 109-110: '<name>.download' is renamed to name and the path is   *)
(* returned; the rename raises FileNotFoundError when '<name>.download'   *)
(* is no longer there.                                                     *)
RenameOutput(p) ==
    LET caller == concurrent.callers[p]
    IN  /\ caller.pc = "rename"
        /\ concurrent' =
               IF concurrent.directory.download = 0
               THEN Moved(p, [caller EXCEPT !.pc = "raised"])
               ELSE [concurrent EXCEPT
                         !.directory.final = concurrent.directory.download,
                         !.directory.download = 0,
                         !.callers[p] = [caller EXCEPT !.pc = "returned"]]
        /\ UNCHANGED <<parser, call, outcome, polynomial, built, files,
                       requests, loading>>

NextConcurrent ==
    \E p \in Callers :
        \/ EnterDownload(p)
        \/ CheckCached(p)
        \/ OpenOutput(p)
        \/ WriteChunk(p)
        \/ RenameOutput(p)

SpecConcurrent == Init /\ [][NextConcurrent]_vars

----------------------------------------------------------------------------
(* sp3/__init__.py: load                                                    *)
(*                                                                          *)
(* The providers that match the id are the first of the list, each serving  *)
(* one file per day.  What a file holds for the satellite asked for is      *)
(* told by its body: "lookup" is a product without the satellite, "one" a   *)
(* record at the beginning of the day, "two" one more at midday, "overlap"  *)
(* one more at the beginning of the next day.  A record carries the name of *)
(* the file it was parsed from in place of its position.                    *)

LoadBegins == {0, DayLength \div 2}
LoadEnds == {0, DayLength \div 2 + 1}
LoadWindows == 0 .. MaxWindow

(* Product.from_file(path).satellite_with_id(sp3_id).records, lines       *)
(* 292-301, for a file of a body that holds the satellite                 *)
RecordsOf(name, body) ==
    LET first == name.day * DayLength
        one == <<Record(first, name)>>
        two == Append(one, Record(first + DayLength \div 2, name))
    IN  CASE body = "one" -> one
          [] body = "two" -> two
          [] body = "overlap" ->
                 Append(two, Record(first + DayLength, name))
          [] OTHER -> <<>>

(* The loop of lines 307-309 with >= for > *)
RECURSIVE extend_or_equal(_, _)
extend_or_equal(deque, new) ==
    IF new = <<>> THEN deque
    ELSE IF Len(deque) = 0 \/ Head(new).time >= deque[Len(deque)].time
         THEN extend_or_equal(Append(deque, Head(new)), Tail(new))
         ELSE extend_or_equal(deque, Tail(new))

(* The loop of lines 307-309: the records of the file, in order, each     *)
(* appended when it is later than the last.                               *)
RECURSIVE extend(_, _)
extend(deque, new) ==
    IF new = <<>> THEN deque
    ELSE IF Len(deque) = 0 \/ Head(new).time > deque[Len(deque)].time
         THEN extend(Append(deque, Head(new)), Tail(new))
         ELSE extend(deque, Tail(new))

(* The loop of lines 303-305: the records of the file, last first, each   *)
(* put in front when it is earlier than the first.                        *)
RECURSIVE extendleft(_, _)
extendleft(deque, new) ==
    IF new = <<>> THEN deque
    ELSE LET record == new[Len(new)]
             rest == SubSeq(new, 1, Len(new) - 1)
         IN  IF Len(deque) = 0 \/ record.time < deque[1].time
             THEN extendleft(<<record>> \o deque, rest)
             ELSE extendleft(deque, rest)

(* Lines 311-321 without the test of end *)
covered_at_begin(l, begin, end, window) ==
    IF Len(l.records) > window
    THEN LET begin_covered == begin >= PyIndex(l.records, window).time
             end_covered == end < PyIndex(l.records, 0 - window).time
         IN  IF begin_covered
             THEN [l EXCEPT !.begin_covered = begin_covered,
                            !.end_covered = end_covered,
                            !.provider_found = TRUE,
                            !.in_loop = FALSE]
             ELSE [l EXCEPT !.begin_covered = begin_covered,
                            !.end_covered = end_covered,
                            !.offset = Min(l.offset, 0) - DayLength]
    ELSE l

(* Lines 311-321: the locals of load after the test of coverage *)
covered(l, begin, end, window) ==
    IF Len(l.records) > window
    THEN LET begin_covered == begin >= PyIndex(l.records, window).time
             end_covered == end < PyIndex(l.records, 0 - window).time
         IN  IF begin_covered
             THEN IF end_covered
                  THEN [l EXCEPT !.begin_covered = begin_covered,
                                 !.end_covered = end_covered,
                                 !.provider_found = TRUE,
                                 !.in_loop = FALSE]
                  ELSE [l EXCEPT !.begin_covered = begin_covered,
                                 !.end_covered = end_covered,
                                 !.offset = (IF l.offset > 0 THEN l.offset
                                             ELSE 0) + DayLength]
             ELSE [l EXCEPT !.begin_covered = begin_covered,
                            !.end_covered = end_covered,
                            !.offset = Min(l.offset, 0) - DayLength]
    ELSE l

(* LookupError(sp3_id) of satellite_with_id, parse.py 502-506 *)
LookupError == [error |-> "LookupError"]

NoProvider == [error |-> "no suitable SP3 provider"]
BeginNotBeforeEnd == [error |-> "AssertionError"]

(* Lines 263-285: the arguments are checked and the locals set up. *)
LoadEnter ==
    /\ call = NoCall
    /\ loading = None
    /\ \E begin \in LoadBegins, end \in LoadEnds, window \in LoadWindows,
          force_download \in BOOLEAN, matching \in 0 .. MaxProviders :
          /\ call' = [fn |-> "load", begin |-> begin, end |-> end,
                      window |-> window, force_download |-> force_download]
          /\ IF begin < end
             THEN /\ loading' = Some([providers |-> matching,
                                      candidate_provider |-> 0,
                                      in_loop |-> FALSE,
                                      offset |-> 0,
                                      begin_covered |-> FALSE,
                                      end_covered |-> FALSE,
                                      provider_found |-> FALSE,
                                      candidate_satellite |-> None,
                                      error |-> None,
                                      records |-> <<>>])
                  /\ outcome' = NoOutcome
             ELSE /\ loading' = None
                  /\ outcome' = RaisedWith(BeginNotBeforeEnd)
    /\ requests' = <<>>
    /\ UNCHANGED <<parser, polynomial, built, files, concurrent>>

(* Lines 286-289 and 330-335: the next provider is taken, or load ends. *)
LoadFor ==
    /\ call.fn = "load"
    /\ loading # None
    /\ outcome = NoOutcome
    /\ ~loading[1].in_loop
    /\ LET l == loading[1]
       IN  IF l.provider_found
           THEN /\ outcome' = Returned(l.records)
                /\ UNCHANGED loading
           ELSE IF l.candidate_provider < l.providers
           THEN /\ loading' =
                       Some([l EXCEPT !.candidate_provider = @ + 1,
                                      !.in_loop = TRUE,
                                      !.offset = 0,
                                      !.begin_covered = FALSE,
                                      !.end_covered = FALSE,
                                      !.candidate_satellite = None,
                                      !.error = None])
                /\ UNCHANGED outcome
           ELSE /\ outcome' = RaisedWith(NoProvider)
                /\ UNCHANGED loading
    /\ requests' = <<>>
    /\ UNCHANGED <<parser, polynomial, built, files, call, concurrent>>

(* Lines 290-329: one turn of the while loop. *)
LoadWhile ==
    /\ call.fn = "load"
    /\ loading # None
    /\ outcome = NoOutcome
    /\ loading[1].in_loop
    /\ LET l == loading[1]
           time_system == TimeSystemOf(l.candidate_provider)
           name == Name(l.candidate_provider, time_system,
                        offset_seconds(time_system, call.begin, l.offset))
       IN  \E response \in Served(name.day) :
               LET done == download(files, name, call.force_download,
                                    response)
                   error == done.outcome.value[1]
                   body == done.files[name][1].body
                   new == RecordsOf(name, body)
               IN  /\ files' = done.files
                   /\ requests' = done.requests
                   /\ IF done.outcome.raised
                      THEN IF /\ error.error = "HTTPError"
                              /\ error.status_code = StatusNotFound
                           THEN /\ loading' =
                                       Some([l EXCEPT
                                                !.in_loop = FALSE,
                                                !.candidate_satellite = None,
                                                !.error = Some(error)])
                                /\ UNCHANGED outcome
                           ELSE /\ outcome' = done.outcome
                                /\ loading' =
                                       Some([l EXCEPT
                                                !.candidate_satellite = None,
                                                !.error = Some(error)])
                      ELSE IF body = "lookup"
                      THEN /\ loading' =
                                  Some([l EXCEPT
                                           !.in_loop = FALSE,
                                           !.candidate_satellite = None,
                                           !.error = Some(LookupError)])
                           /\ UNCHANGED outcome
                      ELSE /\ loading' =
                                  Some(covered(
                                      [l EXCEPT
                                          !.candidate_satellite = Some(new),
                                          !.error = None,
                                          !.records =
                                              IF l.offset < 0
                                              THEN extendleft(@, new)
                                              ELSE extend(@, new)],
                                      call.begin, call.end, call.window))
                           /\ UNCHANGED outcome
    /\ UNCHANGED <<parser, polynomial, built, call, concurrent>>

NextLoad ==
    \/ LoadEnter
    \/ LoadFor
    \/ LoadWhile

SpecLoad == Init /\ [][NextLoad]_vars

(* load runs on its own: nothing but its next step can happen. *)
SpecLoadFair == SpecLoad /\ WF_vars(NextLoad)

----------------------------------------------------------------------------
(* sp3/__init__.py: records_to_piecewise_polynomial, itrs and altaz         *)
(*                                                                          *)
(* Instants are whole ticks: the microsecond that obstime_to_begin_and_end  *)
(* adds is one tick, and so is each second of the light-time bracket.       *)

Least(S) == CHOOSE x \in S : \A y \in S : x <= y

(* Whether a[i] of Python exists. *)
InRange(a, i) == (0 - Len(a)) <= i /\ i < Len(a)

(* Lines 241-245: the index before the first record after begin. *)
begin_record_index(records, begin) ==
    LET later == {i \in 0 .. (Len(records) - 1) : begin < records[i + 1].time}
    IN  IF later = {} THEN 0 ELSE Least(later) - 1

(* end_record_index without the - 1 on the index of the reversed loop *)
end_record_index_at_last(records, end) ==
    LET earlier == {i \in 0 .. (Len(records) - 1) :
                        end >= records[Len(records) - i].time}
    IN  IF earlier = {} THEN Len(records)
        ELSE Len(records) - 1 - Least(earlier)

(* Lines 246-250: the loop runs from the last record back, and the index  *)
(* it leaves is one after the last record that is not after end.          *)
end_record_index(records, end) ==
    LET earlier == {i \in 0 .. (Len(records) - 1) :
                        end >= records[Len(records) - i].time}
    IN  IF earlier = {} THEN Len(records)
        ELSE Len(records) - 1 - (Least(earlier) - 1)

(* list(itertools.islice(records, start, stop)) for start, stop >= 0: the *)
(* elements start .. stop - 1 that exist; from and to are start and stop *)
islice(records, from, to) ==
    SubSeq(records, from + 1, Min(to, Len(records)))

(* Lines 155-223. *)
narrowed_records_to_piecewise_polynomial(records, window, degree) ==
    IF ~ParametersAsserted(window, degree)
    THEN RaisedWith("AssertionError")
    ELSE IF Insufficient(records, window)
    THEN RaisedWith("insufficient number of records")
    ELSE Returned(PiecewisePolynomial(records, window, degree))

(* Lines 226-260; islice raises ValueError for a negative start or stop. *)
records_to_piecewise_polynomial(records, begin, end, window, degree) ==
    LET from == begin_record_index(records, begin) - window
        to == end_record_index(records, end) + window
    IN  IF ~(begin < end) THEN RaisedWith("AssertionError")
        ELSE IF ~InRange(records, window) THEN RaisedWith("IndexError")
        ELSE IF begin < PyIndex(records, window).time
        THEN RaisedWith("begin is too close to the first record")
        ELSE IF ~InRange(records, 0 - window) THEN RaisedWith("IndexError")
        ELSE IF end >= PyIndex(records, 0 - window).time
        THEN RaisedWith("end is too close to the last record")
        ELSE IF from < 0 \/ to < 0 THEN RaisedWith("ValueError")
        ELSE narrowed_records_to_piecewise_polynomial(
                 islice(records, from, to), window, degree)

(* The records handed to the builder by lines 252-260. *)
Narrowed(records, begin, end, window) ==
    islice(records, begin_record_index(records, begin) - window,
           end_record_index(records, end) + window)

Interpolate ==
    /\ call = NoCall
    /\ \E records \in RecordSequences, begin \in QueryInstants,
          end \in QueryInstants, window \in Windows, degree \in Degrees :
          LET done == records_to_piecewise_polynomial(records, begin, end,
                                                      window, degree)
          IN  /\ call' = [fn |-> "records_to_piecewise_polynomial",
                          records |-> records, begin |-> begin, end |-> end,
                          window |-> window, degree |-> degree]
              /\ outcome' = done
              /\ IF done.raised
                 THEN UNCHANGED <<polynomial, built>>
                 ELSE /\ polynomial' = done.value
                      /\ built' = Some([records |-> Narrowed(records, begin,
                                                             end, window),
                                        window |-> window,
                                        degree |-> degree])
    /\ UNCHANGED <<parser, network>>

(* Lines 338-344. *)
obstime_to_begin_and_end(obstime) ==
    LET begin == SeqMin(obstime.instants)
        end == SeqMax(obstime.instants)
    IN  [begin |-> begin, end |-> IF begin = end THEN end + 1 ELSE end]

(* What load has established of the records it returns, lines 311-318    *)
(* and 335.                                                                *)
Loaded(records, begin, end, window) ==
    /\ Len(records) > window
    /\ begin >= PyIndex(records, window).time
    /\ end < PyIndex(records, 0 - window).time

(* PiecewisePolynomial.__call__, lines 70-149. *)
Called(p, obstime) ==
    IF obstime.scale # "utc" THEN RaisedWith("AssertionError")
    ELSE IF TooEarly(p, obstime)
    THEN RaisedWith("the first obstime is too close")
    ELSE IF TooLate(p, obstime)
    THEN RaisedWith("the last obstime is too close")
    ELSE Returned([n \in 1 .. Len(obstime.instants) |->
                      Evaluate(p, obstime.instants[n])])

(* Lines 347-368, for the calls in which load returns. *)
Itrs ==
    /\ call = NoCall
    /\ \E records \in RecordSequences, obstime \in Obstimes,
          window \in LoadWindows, degree \in Degrees :
          LET span == obstime_to_begin_and_end(obstime)
              done == records_to_piecewise_polynomial(
                          records, span.begin, span.end, window, degree)
          IN  /\ call' = [fn |-> "itrs", records |-> records,
                          obstime |-> obstime, window |-> window,
                          degree |-> degree]
              /\ IF obstime.scale # "utc"
                 THEN /\ outcome' = RaisedWith("AssertionError")
                      /\ UNCHANGED <<polynomial, built>>
                 ELSE /\ Loaded(records, span.begin, span.end, window)
                      /\ IF done.raised
                         THEN /\ outcome' = done
                              /\ UNCHANGED <<polynomial, built>>
                         ELSE /\ outcome' = Called(done.value[1], obstime)
                              /\ polynomial' = done.value
                              /\ built' =
                                     Some([records |->
                                               Narrowed(records, span.begin,
                                                        span.end, window),
                                           window |-> window,
                                           degree |-> degree])
    /\ UNCHANGED <<parser, network>>

(* begin - timedelta(seconds=2.0) of line 387 *)
LightTimeMargin == 2
(* bracket=[0.0, 2.0] of line 426 *)
BracketEnd == 2

(* The light-time corrections brentq evaluates: first the two ends of    *)
(* the bracket, then corrections between them.                            *)
Bracket == 0 .. BracketEnd

(* obstime - correction, lines 407-410 and 428 *)
Minus(obstime, correction) ==
    [obstime EXCEPT !.instants =
         [n \in 1 .. Len(obstime.instants) |->
              obstime.instants[n] - correction]]

(* Lines 419-427: the evaluations of the root finding for each instant of *)
(* obstime; the first of them that raises ends altaz.                     *)
Corrections(p, obstime) ==
    LET tried == {Called(p, [scale |-> obstime.scale,
                             instants |-> <<obstime.instants[n] - c>>]) :
                      n \in 1 .. Len(obstime.instants), c \in Bracket}
    IN  IF \E done \in tried : done.raised
        THEN CHOOSE done \in tried : done.raised
        ELSE NoOutcome

(* Lines 371-429, for the calls in which load returns: the polynomial is  *)
(* built, the light-time correction of each instant is sought, and the    *)
(* polynomial is evaluated at the corrected instants.  The transforms     *)
(* that follow line 429 do not call the polynomial.                       *)
Altaz ==
    /\ call = NoCall
    /\ \E records \in RecordSequences, obstime \in Obstimes,
          window \in LoadWindows, degree \in Degrees, root \in Bracket :
          LET span == obstime_to_begin_and_end(obstime)
              done == records_to_piecewise_polynomial(
                          records, span.begin, span.end, window, degree)
          IN  /\ call' = [fn |-> "altaz", records |-> records,
                          obstime |-> obstime, window |-> window,
                          degree |-> degree]
              /\ IF obstime.scale # "utc"
                 THEN /\ outcome' = RaisedWith("AssertionError")
                      /\ UNCHANGED <<polynomial, built>>
                 ELSE /\ Loaded(records, span.begin - LightTimeMargin,
                                span.end, window)
                      /\ IF done.raised
                         THEN /\ outcome' = done
                              /\ UNCHANGED <<polynomial, built>>
                         ELSE /\ outcome' =
                                     IF Corrections(done.value[1],
                                                    obstime).raised
                                     THEN Corrections(done.value[1], obstime)
                                     ELSE Called(done.value[1],
                                                 Minus(obstime, root))
                              /\ polynomial' = done.value
                              /\ built' =
                                     Some([records |->
                                               Narrowed(records, span.begin,
                                                        span.end, window),
                                           window |-> window,
                                           degree |-> degree])
    /\ UNCHANGED <<parser, network>>

NextInterpolate ==
    \/ Interpolate
    \/ Itrs
    \/ Altaz

SpecInterpolate == Init /\ [][NextInterpolate]_vars

----------------------------------------------------------------------------
(* sp3/unix.py: uncompress                                                  *)
(*                                                                          *)
(* The input is a sequence of read chunks: what the successive calls of     *)
(* input.read(4096) return before the empty read that ends the stream.      *)
(* Apart from the locals of the source the decoder carries two counts that  *)
(* the source does not keep: due, the padding bytes that its events asked   *)
(* to skip, and dropped, the bytes it discarded.                            *)

(* the bytes of the streams tried: the magic number and a flags byte of   *)
(* block mode with 16 bits, then bytes of 0x41 and 0xFE                   *)
StreamHeader == <<31, 157, 144>>
StreamBytes == {65, 254}

RECURSIVE StreamBodies(_)
StreamBodies(n) ==
    IF n = 0 THEN {<<>>}
    ELSE {Append(b, x) : b \in StreamBodies(n - 1), x \in StreamBytes}

Streams ==
    UNION {{StreamHeader \o b : b \in StreamBodies(n)} : n \in 0 .. MaxBody}

(* the ways to cut a stream into at most MaxReads chunks, none empty *)
RECURSIVE Splits(_, _)
Splits(stream, reads) ==
    IF stream = <<>> THEN {<<>>}
    ELSE IF reads = 1 THEN {<<stream>>}
    ELSE {<<stream>>} \cup
         UNION {{<<SubSeq(stream, 1, k)>> \o rest :
                     rest \in Splits(SubSeq(stream, k + 1, Len(stream)),
                                     reads - 1)} :
                    k \in 1 .. (Len(stream) - 1)}

RECURSIVE Reversed(_)
Reversed(a) == IF a = <<>> THEN <<>> ELSE Append(Reversed(Tail(a)), Head(a))

(* buffer[n:] *)
Drop(buffer, n) == SubSeq(buffer, Min(n, Len(buffer)) + 1, Len(buffer))

(* prefix[code] and suffix[code] of tables that start as zeros *)
Entry(table, code) == IF code \in DOMAIN table THEN table[code] ELSE 0

(* Lines 7-22. *)
Decoder ==
    [status |-> "running", header |-> TRUE, buffer |-> <<>>,
     block_compressed |-> FALSE, maximum |-> 0, end |-> 0, mask |-> 511,
     code |-> 0, previous_code |-> 0, final |-> 0, bits |-> 9, left |-> 7,
     offset |-> 2, skip |-> 0, mid_code |-> FALSE, prefix |-> <<>>,
     suffix |-> <<>>, output |-> <<>>, due |-> 0, dropped |-> 0]

Failed(d, message) == [d EXCEPT !.status = message]

(* Lines 29-54. *)
ReadHeader(d) ==
    LET buffer == d.buffer
        flags == buffer[3]
        maximum == flags % 32
    IN  IF Len(buffer) < 3
        THEN Failed(d, "uncompress requires at least 3 bytes")
        ELSE IF buffer[1] # 31 \/ buffer[2] # 157
        THEN Failed(d, "bad magic number")
        ELSE IF (flags \div 32) % 4 > 0
        THEN Failed(d, "invalid header flags byte")
        ELSE IF maximum < 9 \/ maximum > 16
        THEN Failed(d, "invalid header flags byte")
        ELSE IF Len(buffer) = 3 THEN Failed(d, "returned")
        ELSE IF Len(buffer) = 4 THEN Failed(d, "unexpected end of stream")
        ELSE IF buffer[5] % 2 # 0
        THEN Failed(d, "the first code must be a literal")
        ELSE [d EXCEPT
                  !.block_compressed = (flags \div 128) % 2 = 1,
                  !.maximum = IF maximum = 9 THEN 10 ELSE maximum,
                  !.code = buffer[5] \div 2,
                  !.previous_code = buffer[4] + (buffer[5] % 2) * 256,
                  !.final = buffer[4] + (buffer[5] % 2) * 256,
                  !.output = <<buffer[4] + (buffer[5] % 2) * 256>>,
                  !.end = IF (flags \div 128) % 2 = 1 THEN 256 ELSE 255,
                  !.header = FALSE,
                  !.buffer = Drop(buffer, 5)]

(* Lines 64-73 and 91-100: the padding up to the next group of codes is   *)
(* skipped and bits is set.  skip keeps its value when the padding lies   *)
(* in the buffer, and when the buffer runs out it is lessened by the      *)
(* length of the buffer that line 69 or 96 has just emptied, that is by   *)
(* nothing; line 27 drops skip bytes again after the next read.           *)
SkipPadding(d, remainder, bits) ==
    IF remainder > 0
    THEN LET skip == d.bits - remainder
         IN  IF Len(d.buffer) > skip
             THEN [d EXCEPT !.skip = skip,
                            !.buffer = Drop(d.buffer, skip),
                            !.bits = bits,
                            !.due = @ + skip,
                            !.dropped = @ + skip]
             ELSE [d EXCEPT !.skip = skip,
                            !.buffer = <<>>,
                            !.bits = bits,
                            !.due = @ + skip,
                            !.dropped = @ + Len(d.buffer)]
    ELSE [d EXCEPT !.bits = bits]

(* Lines 109-111: the chain of a code is followed down to a literal. *)
RECURSIVE Chain(_, _, _)
Chain(d, stack, masked_code) ==
    IF masked_code > 255
    THEN Chain(d, Append(stack, Entry(d.suffix, masked_code)),
               Entry(d.prefix, masked_code))
    ELSE [stack |-> Append(stack, masked_code), final |-> masked_code]

(* Lines 102-119: a code is decoded and written. *)
Decode(d, masked_code) ==
    IF masked_code > d.end
          /\ (masked_code # d.end + 1 \/ d.previous_code > d.end)
    THEN Failed(d, "invalid code")
    ELSE LET chain == IF masked_code > d.end
                      THEN Chain(d, <<d.final>>, d.previous_code)
                      ELSE Chain(d, <<>>, masked_code)
             grown == d.end < d.mask
             end == IF grown THEN d.end + 1 ELSE d.end
         IN  [d EXCEPT
                  !.final = chain.final,
                  !.end = end,
                  !.prefix = IF grown THEN (end :> d.previous_code) @@ @
                             ELSE @,
                  !.suffix = IF grown THEN (end :> chain.final) @@ @
                             ELSE @,
                  !.previous_code = masked_code,
                  !.output = @ \o Reversed(chain.stack)]

(* Lines 74-119: the next byte is taken into the code. *)
TakeByte(d) ==
    LET taken == [d EXCEPT !.code = @ + Head(d.buffer) * Pow(2, d.left),
                           !.buffer = Tail(@),
                           !.offset = @ + 1,
                           !.left = @ + 8]
        masked_code == taken.code % (taken.mask + 1)
        shifted == [taken EXCEPT !.code = @ \div Pow(2, taken.bits),
                                 !.left = @ - taken.bits]
    IN  IF taken.left < taken.bits
        THEN [taken EXCEPT !.mid_code = TRUE]
        ELSE IF masked_code = 255 /\ taken.block_compressed
        THEN SkipPadding([shifted EXCEPT !.code = 0, !.left = 0,
                                         !.offset = 0, !.mask = 511,
                                         !.end = 255],
                         shifted.offset % shifted.bits, 9)
        ELSE Decode(shifted, masked_code)

(* Lines 55-119: the loop over the bytes of the buffer. *)
RECURSIVE Inner(_)
Inner(d) ==
    IF d.status # "running" \/ d.buffer = <<>> THEN d
    ELSE IF d.mid_code
    THEN Inner(TakeByte([d EXCEPT !.mid_code = FALSE]))
    ELSE IF d.end >= d.mask /\ d.bits < d.maximum
    THEN LET widened == SkipPadding([d EXCEPT !.code = 0, !.left = 0,
                                              !.offset = 0,
                                              !.mask = d.mask * 2 + 1],
                                    d.offset % d.bits, d.bits + 1)
         IN  IF widened.buffer = <<>> THEN widened
             ELSE Inner(TakeByte(widened))
    ELSE Inner(TakeByte(d))

(* Lines 23-28: the loop over the reads; the buffer is empty whenever a   *)
(* read is made, so the loop ends at the first empty read.                *)
RECURSIVE uncompress(_, _)
uncompress(d, chunks) ==
    IF d.status # "running" \/ chunks = <<>> THEN d
    ELSE LET buffer == d.buffer \o Head(chunks)
             read == [d EXCEPT !.buffer = Drop(buffer, d.skip),
                               !.skip = 0,
                               !.dropped = @ + Min(d.skip, Len(buffer))]
         IN  uncompress(Inner(IF d.header THEN ReadHeader(read) ELSE read),
                        Tail(chunks))

Uncompress ==
    /\ call = NoCall
    /\ \E stream \in Streams :
         \E chunks \in Splits(stream, MaxReads) :
           LET done == uncompress(Decoder, chunks)
           IN  /\ call' = [fn |-> "unix.uncompress", chunks |-> chunks]
               /\ outcome' = [raised |-> done.status \notin {"running",
                                                             "returned"},
                              value |-> Some([status |-> done.status,
                                              output |-> done.output,
                                              due |-> done.due,
                                              dropped |-> done.dropped])]
    /\ UNCHANGED <<parser, polynomial, built, network>>

NextUncompress == Uncompress

SpecUncompress == Init /\ [][NextUncompress]_vars

----------------------------------------------------------------------------
(* Properties of TimeSystem *)

(* C19 as claimed: in each of the eight time systems time_from_utc undoes *)
(* time_to_utc and time_to_utc undoes time_from_utc, at every instant.    *)
C19_Inverse ==
    /\ call.fn = "time_to_utc" =>
           /\ ~outcome.raised
           /\ time_from_utc(call.time_system, outcome.value[1]) = call.time
    /\ call.fn = "time_from_utc" =>
           /\ ~time_to_utc_raises(call.time_system, outcome.value[1])
           /\ time_to_utc(call.time_system, outcome.value[1]) = call.time

(* C20 as claimed: offset_seconds(t, d) is the UTC instant reached by     *)
(* adding d seconds in the native scale, time_to_utc(time_from_utc(t) +   *)
(* d), wherever that instant has a UTC label; so offset_seconds(t, 0) = t.*)
C20_OffsetInNativeScale ==
    call.fn = "offset_seconds" =>
        LET native == time_from_utc(call.time_system, call.time)
                          + call.offset
        IN  ~time_to_utc_raises(call.time_system, native) =>
                outcome.value[1] = time_to_utc(call.time_system, native)

(* C21 as claimed: time_to_utc returns, for GPS, IRN and QZS, t + 19 s     *)
(* less the TAI - UTC offset in force; for GAL and TAI, t less that        *)
(* offset; for GLO, t less three hours; for BDT and UTC, t itself.         *)
C21_ConversionTable ==
    call.fn = "time_to_utc" =>
        LET t == call.time
            InForce(tai) == IF tai < LeapSecondTai THEN GpsTaiOffset
                            ELSE GpsTaiOffset + 1
        IN  /\ ~outcome.raised
            /\ outcome.value[1] =
                   CASE call.time_system \in {"GPS", "IRN", "QZS"} ->
                            t + GpsTaiOffset - InForce(t + GpsTaiOffset)
                     [] call.time_system \in {"GAL", "TAI"} -> t - InForce(t)
                     [] call.time_system = "GLO" -> t - 3 * 60 * 60
                     [] OTHER -> t

----------------------------------------------------------------------------
(* Properties of the piecewise polynomial *)

(* C11 as claimed: a polynomial built from N records with window w has    *)
(* minimum_time = records[w].time and maximum_time = records[N - w].time; *)
(* an evaluation at UTC instants raises exactly when the least instant is *)
(* before minimum_time or the greatest is at or after maximum_time, so a  *)
(* batch with one instant out of range yields no result.                  *)
C11_ValidityRange ==
    /\ (call.fn = "narrowed_records_to_piecewise_polynomial"
            /\ ~outcome.raised) =>
           LET N == Len(call.records)
               w == call.window
           IN  /\ polynomial[1].minimum_time = call.records[w + 1].time
               /\ N - w + 1 \in 1 .. N
               /\ polynomial[1].maximum_time = call.records[N - w + 1].time
    /\ (call.fn = "__call__" /\ call.obstime.scale = "utc") =>
           LET t == call.obstime.instants
           IN  outcome.raised <=>
                   \E n \in 1 .. Len(t) :
                       \/ t[n] < polynomial[1].minimum_time
                       \/ t[n] >= polynomial[1].maximum_time

(* C12 as claimed: an instant in [minimum_time, maximum_time) is          *)
(* evaluated with the interval centred on the record nearest to it among  *)
(* all the records.                                                       *)
C12_NearestOfAllRecords ==
    (call.fn = "__call__" /\ ~outcome.raised) =>
        LET records == built[1].records
            w == built[1].window
            Abs(a) == IF a < 0 THEN 0 - a ELSE a
        IN  \A n \in 1 .. Len(call.obstime.instants) :
                LET t == call.obstime.instants[n]
                    centre == records[w + outcome.value[1][n].index + 1]
                IN  \A r \in 1 .. Len(records) :
                        Abs(t - centre.time) <= Abs(t - records[r].time)

(* C12 amended: an instant in [minimum_time, maximum_time) is evaluated   *)
(* with the interval centred on the record nearest to it among the        *)
(* centres, records[w] .. records[N - w - 1]; the window records at       *)
(* either end are no centres, however near.                               *)
C12_NearestOfCentres ==
    (call.fn = "__call__" /\ ~outcome.raised) =>
        LET records == built[1].records
            w == built[1].window
            Abs(a) == IF a < 0 THEN 0 - a ELSE a
        IN  \A n \in 1 .. Len(call.obstime.instants) :
                LET t == call.obstime.instants[n]
                    centre == records[w + outcome.value[1][n].index + 1]
                IN  \A r \in (w + 1) .. (Len(records) - w) :
                        Abs(t - centre.time) <= Abs(t - records[r].time)

(* An evaluation at an instant strictly nearer to records[N - w] than to  *)
(* the last centre has returned, and another interval was to choose from. *)
C12_Witness ==
    /\ call.fn = "__call__"
    /\ ~outcome.raised
    /\ Len(polynomial[1].offset) >= 2
    /\ LET records == built[1].records
           last == Len(records) - built[1].window
           t == call.obstime.instants[1]
       IN  /\ outcome.value[1][1].index = Len(polynomial[1].offset) - 1
           /\ records[last + 1].time - t < t - records[last].time

(* C13: the interval index of an instant is the largest j with            *)
(* begin[j] <= instant - reference_time, and 0 <= j <= N - 2 w - 1; an    *)
(* instant equal to begin[j] is evaluated with interval j.                *)
C13_IntervalIndex ==
    (call.fn = "__call__" /\ ~outcome.raised) =>
        \A n \in 1 .. Len(call.obstime.instants) :
            LET p == polynomial[1]
                t == call.obstime.instants[n] - p.reference_time
                j == outcome.value[1][n].index
            IN  /\ j \in 0 .. (Len(built[1].records)
                                   - 2 * built[1].window - 1)
                /\ p.begin[j + 1] <= t
                /\ \A i \in 1 .. Len(p.begin) : p.begin[i] <= t => i <= j + 1

(* An evaluation exactly at the beginning of the second interval has      *)
(* returned, with the second interval.                                    *)
C13_Witness ==
    /\ call.fn = "__call__"
    /\ ~outcome.raised
    /\ Len(polynomial[1].begin) >= 2
    /\ call.obstime.instants[1] - polynomial[1].reference_time
           = polynomial[1].begin[2]
    /\ outcome.value[1][1].index = 1

(* C14 as claimed: the builder rejects with an assertion error, and       *)
(* builds nothing, when window < 1, degree < 0 or 2 window + 1 <= degree. *)
C14_ParametersRejected ==
    (/\ call.fn = "narrowed_records_to_piecewise_polynomial"
     /\ \/ call.window < 1
        \/ call.degree < 0
        \/ 2 * call.window + 1 <= call.degree) =>
        /\ outcome.raised
        /\ outcome.value = Some("AssertionError")
        /\ polynomial = None

(* C15: for parameters that pass the asserts the builder raises           *)
(* 'insufficient number of records' exactly when there are fewer than     *)
(* 2 window + 1 records, and with exactly 2 window + 1 records it builds  *)
(* a polynomial of one interval.                                          *)
C15_InsufficientRecords ==
    (/\ call.fn = "narrowed_records_to_piecewise_polynomial"
     /\ call.degree >= 0
     /\ 2 * call.window + 1 > call.degree) =>
        /\ (Len(call.records) < 2 * call.window + 1) <=>
               (/\ outcome.raised
                /\ outcome.value = Some("insufficient number of records"))
        /\ (Len(call.records) >= 2 * call.window + 1) <=> ~outcome.raised
        /\ (Len(call.records) = 2 * call.window + 1) =>
               /\ polynomial # None
               /\ Len(polynomial[1].offset) = 1
               /\ Len(polynomial[1].coefficients[1]) = 1
               /\ call.window >= 1 => Len(polynomial[1].begin) = 1

(* Three records and window 1: one interval built. *)
C15_Witness ==
    /\ call.fn = "narrowed_records_to_piecewise_polynomial"
    /\ call.window = 1
    /\ Len(call.records) = 3
    /\ polynomial # None
    /\ Len(polynomial[1].coefficients[1]) = 1

(* C16: the velocity coefficients are fitted to the velocities of the     *)
(* records exactly when every record has one; otherwise row k of them is  *)
(* (k + 1) times row k + 1 of the position coefficients, for every        *)
(* 0 <= k < degree, interval and dimension.                               *)
C16_DerivedVelocity ==
    (call.fn = "narrowed_records_to_piecewise_polynomial"
         /\ ~outcome.raised) =>
        LET c == polynomial[1].coefficients
            v == polynomial[1].velocity_coefficients
            every == \A r \in 1 .. Len(call.records) :
                         call.records[r].velocity # None
        IN  /\ every <=>
                   \A i \in 1 .. Len(v[1]) : \A d \in 1 .. 3 :
                       /\ "samples" \in DOMAIN v[1][i][d]
                       /\ v[1][i][d].samples =
                              [n \in 1 .. 2 * call.window + 1 |->
                                   call.records[i - 1 + n].velocity[1]]
            /\ ~every =>
                   \A k \in 0 .. call.degree - 1 :
                       \A i \in 1 .. Len(c[1]) : \A d \in 1 .. 3 :
                           v[k + 1][i][d] = [times |-> k + 1,
                                             c |-> c[k + 2][i][d]]

(* A polynomial of degree 2 or more built from records of which one has   *)
(* no velocity.                                                           *)
C16_Witness ==
    /\ call.fn = "narrowed_records_to_piecewise_polynomial"
    /\ ~outcome.raised
    /\ call.degree >= 2
    /\ \E r \in 1 .. Len(call.records) : call.records[r].velocity = None
    /\ \E r \in 1 .. Len(call.records) : call.records[r].velocity # None

(* C17 as claimed: the velocity coefficients have the shape of the        *)
(* position coefficients, degree + 1 rows, however they were computed;    *)
(* when derived, their row of highest degree is zero throughout.          *)
C17_VelocityShape ==
    (call.fn = "narrowed_records_to_piecewise_polynomial"
         /\ ~outcome.raised) =>
        LET c == polynomial[1].coefficients
            v == polynomial[1].velocity_coefficients
        IN  /\ Len(c) = call.degree + 1
            /\ Len(v) = Len(c)
            /\ \A k \in 1 .. Len(v) : Len(v[k]) = Len(c[k])
            /\ (\E r \in 1 .. Len(call.records) :
                    call.records[r].velocity = None) =>
                   \A i \in 1 .. Len(v[Len(v)]) : \A d \in 1 .. 3 :
                       v[Len(v)][i][d].times = 0

(* C18: an evaluation, returning or raising, leaves every field of the    *)
(* polynomial as it was, and an instant evaluated in two successive       *)
(* evaluations is given the same value in both.                           *)
C18_EvaluationIsPure ==
    [][call'.fn = "__call__" =>
           /\ polynomial' = polynomial
           /\ (call.fn = "__call__" /\ ~outcome.raised /\ ~outcome'.raised) =>
                  \A n \in 1 .. Len(call.obstime.instants) :
                      \A m \in 1 .. Len(call'.obstime.instants) :
                          call.obstime.instants[n]
                                  = call'.obstime.instants[m] =>
                              outcome.value[1][n] = outcome'.value[1][m]]_vars

(* An instant evaluated second in a batch of two, after other             *)
(* evaluations of the same polynomial.                                    *)
C18_Witness ==
    /\ call.fn = "__call__"
    /\ ~outcome.raised
    /\ Len(call.obstime.instants) = 2
    /\ call.obstime.instants[2] < call.obstime.instants[1]

(* C29: for N >= 2 w + 1 strictly ascending records and w >= 1 the        *)
(* builder makes N - 2 w intervals, offset[j] being the time of           *)
(* records[w + j] and begin[j] the midpoint of the times of               *)
(* records[w + j - 1] and records[w + j], all relative to records[0]; so  *)
(* begin is strictly ascending and begin[0] lies before minimum_time.     *)
C29_IntervalBounds ==
    (/\ call.fn = "narrowed_records_to_piecewise_polynomial"
     /\ ~outcome.raised
     /\ call.window >= 1) =>
        LET p == polynomial[1]
            w == call.window
            N == Len(call.records)
            t(k) == call.records[k + 1].time - call.records[1].time
        IN  /\ Len(p.offset) = N - 2 * w
            /\ Len(p.begin) = N - 2 * w
            /\ Len(p.coefficients[1]) = N - 2 * w
            /\ \A j \in 0 .. N - 2 * w - 1 :
                   /\ p.offset[j + 1] = t(w + j)
                   /\ 2 * p.begin[j + 1] = t(w + j - 1) + t(w + j)
            /\ \A j \in 1 .. N - 2 * w - 1 : p.begin[j] < p.begin[j + 1]
            /\ p.reference_time + p.begin[1] < p.minimum_time

(* A polynomial of two intervals, built with window 1 from records that   *)
(* are not evenly spaced.                                                 *)
C29_Witness ==
    /\ call.fn = "narrowed_records_to_piecewise_polynomial"
    /\ ~outcome.raised
    /\ call.window = 1
    /\ Len(polynomial[1].begin) = 2
    /\ call.records[2].time - call.records[1].time
           # call.records[3].time - call.records[2].time

----------------------------------------------------------------------------
(* Properties of the providers *)

(* C25: Provider.download changes the file of the final name only by      *)
(* renaming '<name>.download' once download_to has written the whole      *)
(* body; when the download fails, at the request or while the body        *)
(* arrives, the final name is as it was before, present or absent, also   *)
(* when force is true.                                                    *)
C25_RenamedOnSuccess ==
    [][call'.fn = "Provider.download" =>
           LET name == call'.name
           IN  /\ files'[name] # files[name] =>
                      /\ ~outcome'.raised
                      /\ call'.response.sent = MaxChunks
                      /\ files'[name] = Some([body |-> call'.response.body,
                                              written |-> MaxChunks])
                      /\ files'[InProgress(name)] = None
               /\ outcome'.raised => files'[name] = files[name]
               /\ \A other \in FileNames :
                      other \notin {name, InProgress(name)} =>
                          files'[other] = files[other]]_vars

(* A forced download has failed while the body arrived, and the file      *)
(* cached before is still there, whole.                                   *)
C25_Witness ==
    /\ call.fn = "Provider.download"
    /\ call.force
    /\ outcome.raised
    /\ outcome.value[1].error = "ConnectionError"
    /\ files[call.name] # None
    /\ files[call.name][1].written = MaxChunks
    /\ files[InProgress(call.name)] # None
    /\ files[InProgress(call.name)][1].body # files[call.name][1].body

(* C26: Provider.download with force false and the file of the name in    *)
(* the directory returns its path, sends no request and leaves every      *)
(* file as it was; with force true it sends the request, whatever the     *)
(* directory holds.                                                       *)
C26_CachedWithoutRequest ==
    [][call'.fn = "Provider.download" =>
           /\ (~call'.force /\ files[call'.name] # None) =>
                  /\ outcome' = Returned(call'.name)
                  /\ requests' = <<>>
                  /\ files' = files
           /\ call'.force => requests' = <<call'.name>>]_vars

(* An unforced download has returned a cached file after the server       *)
(* stopped serving it.                                                    *)
C26_Witness ==
    /\ call.fn = "Provider.download"
    /\ ~call.force
    /\ call.response.status = StatusNotFound
    /\ outcome = Returned(call.name)
    /\ requests = <<>>

(* C27 as claimed: CddisSearchProvider.download goes on to the candidate  *)
(* one day earlier when a candidate is answered with status 404, raises   *)
(* the last 404 only when all begin_end_delta candidates were answered    *)
(* so, and raises any other HTTP error at once.                           *)
C27_SearchOnStatus ==
    call.fn = "CddisSearchProvider.download" =>
        /\ (/\ outcome.raised
            /\ outcome.value[1].error = "HTTPError"
            /\ outcome.value[1].status_code = StatusNotFound) =>
               /\ Len(requests) = Len(call.names)
               /\ \A k \in 1 .. Len(call.names) :
                      call.responses[k].status = StatusNotFound
        /\ (/\ Len(call.names) >= 1
            /\ call.responses[1].status \in ErrorStatuses
            /\ call.responses[1].status # StatusNotFound
            /\ Len(requests) >= 1) =>
               /\ outcome.raised
               /\ outcome.value[1].error = "HTTPError"
               /\ outcome.value[1].status_code = call.responses[1].status
               /\ Len(requests) = 1

----------------------------------------------------------------------------
(* Properties of load *)

(* C22: when load returns, it returns more than window records, the one   *)
(* at index window is not after begin, and end is before the one at       *)
(* index -window.                                                         *)
C22_SpanCovered ==
    (call.fn = "load" /\ ~outcome.raised /\ outcome.value # None) =>
        LET r == outcome.value[1]
            w == call.window
        IN  /\ Len(r) > w
            /\ r[w + 1].time <= call.begin
            /\ call.end < r[IF w = 0 THEN 1 ELSE Len(r) - w + 1].time

(* load has returned for a window of one or more, with records put in     *)
(* front of those of the first file.                                      *)
C22_Witness ==
    /\ call.fn = "load"
    /\ ~outcome.raised
    /\ outcome.value # None
    /\ call.window >= 1
    /\ loading[1].offset < 0

(* C23 as claimed: when a file is merged that holds a record of the time  *)
(* of a record accumulated before, the record of the file is the one of   *)
(* that time afterwards.                                                  *)
C23_NewerReplaces ==
    [][(/\ call.fn = "load"
        /\ loading # None
        /\ loading[1].in_loop
        /\ loading'[1].candidate_satellite # None) =>
           LET old == loading[1].records
               new == loading'[1].candidate_satellite[1]
               result == loading'[1].records
           IN  \A i \in 1 .. Len(new) : \A j \in 1 .. Len(old) :
                   new[i].time = old[j].time =>
                       \E k \in 1 .. Len(result) : result[k] = new[i]]_vars

(* C24: whatever files were merged, in front or behind, from whichever    *)
(* providers, the accumulated records are strictly ascending in time.     *)
C24_MergedAscending ==
    (call.fn = "load" /\ loading # None) =>
        LET r == loading[1].records
        IN  \A i \in 1 .. Len(r) - 1 : r[i].time < r[i + 1].time

(* Records of two providers are accumulated, some put in front and some   *)
(* behind, and a file held a record of a time that was there already.     *)
C24_Witness ==
    /\ call.fn = "load"
    /\ loading # None
    /\ LET r == loading[1].records
       IN  /\ \E i, j \in 1 .. Len(r) :
                  r[i].position.provider # r[j].position.provider
           /\ \E i, j \in 1 .. Len(r) :
                  /\ r[i].position.day < 0
                  /\ r[j].position.day > 0
    /\ loading[1].candidate_satellite # None
    /\ \E i \in 1 .. Len(loading[1].candidate_satellite[1]) :
           \E j \in 1 .. Len(loading[1].records) :
               /\ loading[1].candidate_satellite[1][i].time
                      = loading[1].records[j].time
               /\ loading[1].candidate_satellite[1][i]
                      # loading[1].records[j]

(* C28 as claimed: load leaves the while loop of a provider without       *)
(* having found it exactly when the download met status 404 or the        *)
(* product lacks the satellite; any other error is raised to the caller   *)
(* at once; and a load that finds no provider ends, raising 'no suitable  *)
(* SP3 provider'.                                                         *)
C28_ProviderAbandoned ==
    /\ [][(/\ call.fn = "load"
           /\ loading # None
           /\ loading[1].in_loop
           /\ loading' # loading) =>
              LET error == loading'[1].error
                  skipped == /\ error # None
                             /\ \/ error[1].error = "LookupError"
                                \/ /\ error[1].error = "HTTPError"
                                   /\ error[1].status_code = StatusNotFound
              IN  /\ (/\ ~loading'[1].in_loop
                      /\ ~loading'[1].provider_found) <=> skipped
                  /\ skipped => outcome' = NoOutcome
                  /\ (error # None /\ ~skipped) =>
                         outcome' = RaisedWith(error[1])]_vars
    /\ [](outcome = RaisedWith(NoProvider) =>
              /\ ~loading[1].provider_found
              /\ loading[1].candidate_provider = loading[1].providers)
    /\ (call.fn = "load") ~> (outcome # NoOutcome)

(* C34 as claimed: load ends, by returning or raising, and while it stays *)
(* with a provider no turn of its loop leaves the time offset as it was,  *)
(* so that no file is requested twice in a row.                           *)
C34_LoadTerminates ==
    /\ (loading # None) ~> (outcome # NoOutcome)
    /\ [][(/\ call.fn = "load"
           /\ loading # None
           /\ loading[1].in_loop
           /\ loading'[1].in_loop
           /\ outcome' = NoOutcome
           /\ loading'[1].error = None)
          => loading'[1].offset # loading[1].offset]_vars

(* C35 as claimed: the records load returns all come from the files of    *)
(* the provider that completed the coverage.                               *)
C35_SingleProvider ==
    (call.fn = "load" /\ outcome # NoOutcome /\ ~outcome.raised) =>
        \A i \in 1 .. Len(outcome.value[1]) :
            outcome.value[1][i].position.provider
                = loading[1].candidate_provider

----------------------------------------------------------------------------
(* Properties of records_to_piecewise_polynomial, itrs and altaz *)

(* The case of C36: records_to_piecewise_polynomial was called with       *)
(* window >= 1, begin < end, records[window].time <= begin and            *)
(* end < records[-window].time; the records tried are strictly ascending. *)
C36_Case ==
    /\ call.fn = "records_to_piecewise_polynomial"
    /\ call.window >= 1
    /\ call.begin < call.end
    /\ Len(call.records) > call.window
    /\ PyIndex(call.records, call.window).time <= call.begin
    /\ call.end < PyIndex(call.records, 0 - call.window).time

(* What C36 promises of the call: it returns, the builder was given at    *)
(* least 2 * window + 1 records, all of them of the sequence, and the     *)
(* polynomial is valid from no later than begin until after end.          *)
C36_Promise ==
    /\ ~outcome.raised
    /\ polynomial # None
    /\ built # None
    /\ Len(built[1].records) >= 2 * call.window + 1
    /\ begin_record_index(call.records, call.begin) - call.window >= 0
    /\ end_record_index(call.records, call.end) + call.window
           <= Len(call.records)
    /\ Len(built[1].records) =
           end_record_index(call.records, call.end) + call.window
               - (begin_record_index(call.records, call.begin) - call.window)
    /\ polynomial[1].minimum_time <= call.begin
    /\ call.end < polynomial[1].maximum_time

(* C36 as claimed, for every degree. *)
C36_NarrowingAnyDegree ==
    C36_Case => C36_Promise

(* C36: under the conditions of the claim, and with a degree the builder  *)
(* accepts (0 <= degree < 2 * window + 1), the call does not raise, hands *)
(* the builder at least 2 * window + 1 records from inside the sequence,  *)
(* and returns a polynomial with minimum_time <= begin and                *)
(* end < maximum_time.                                                     *)
C36_Narrowing ==
    (C36_Case /\ ParametersAsserted(call.window, call.degree))
        => C36_Promise

(* a call with records cut off at both ends of the sequence *)
C36_Witness ==
    /\ C36_Case
    /\ ParametersAsserted(call.window, call.degree)
    /\ ~outcome.raised
    /\ begin_record_index(call.records, call.begin) - call.window > 0
    /\ built # None
    /\ Len(built[1].records) < Len(call.records)

(* C37 as claimed: in a call of altaz for which load returned and the    *)
(* polynomial was built, every instant at which the polynomial is         *)
(* evaluated, obstime minus each light-time correction of the bracket,    *)
(* lies in [minimum_time, maximum_time), and altaz does not end with the  *)
(* exception of an evaluation out of that range.                           *)
C37_EvaluationsInRange ==
    (call.fn = "altaz" /\ polynomial # None) =>
        /\ \A n \in 1 .. Len(call.obstime.instants), c \in Bracket :
               /\ polynomial[1].minimum_time <= call.obstime.instants[n] - c
               /\ call.obstime.instants[n] - c < polynomial[1].maximum_time
        /\ ~outcome.raised

----------------------------------------------------------------------------
(* Properties of concurrent downloads *)

(* C38 as claimed: with callers of download running at once for one name, *)
(* the file of that name never has partial content while it exists, no    *)
(* call raises, and a call that has returned has left a complete file.    *)
C38_ConcurrentDownloads ==
    /\ concurrent.directory.final # 0 =>
           concurrent.inodes[concurrent.directory.final] = CompleteBody
    /\ \A p \in Callers : concurrent.callers[p].pc # "raised"

----------------------------------------------------------------------------
(* Properties of unix.uncompress *)

(* the stream of the call, in one piece *)
C40_Whole ==
    LET RECURSIVE Joined(_)
        Joined(chunks) == IF chunks = <<>> THEN <<>>
                          ELSE Head(chunks) \o Joined(Tail(chunks))
    IN  uncompress(Decoder, <<Joined(call.chunks)>>)

(* C40 as claimed: when a clear code or a wider code made the decoder     *)
(* skip padding, it discards the bytes of that padding and no others      *)
(* wherever the reads cut the input, so that what it writes, how it ends  *)
(* and how many bytes it discards are what they are for the same input    *)
(* read in one piece.                                                      *)
C40_PaddingSkipped ==
    (/\ call.fn = "unix.uncompress"
     /\ outcome.value[1].due > 0
     /\ C40_Whole.due > 0)
        => /\ outcome.value[1].output = C40_Whole.output
           /\ outcome.value[1].status = C40_Whole.status
           /\ outcome.value[1].dropped = C40_Whole.dropped

====
